---- MODULE Spec2Model ----
(***************************************************************************)
(* Model of the AI report generator: the LangGraph workflow of             *)
(* src/src/graph/builder.py over the six stage functions of                *)
(* src/src/agents/*.py.                                                    *)
(*                                                                         *)
(* The workflow state is a Python dict: it is modelled as a TLA+ function  *)
(* whose DOMAIN is the set of keys present, so that state.get(k, default)  *)
(* and `k in state` keep their meaning.  An Optional value is a sequence   *)
(* of length <= 1: None is << >>, a present value v is <<v>>.              *)
(*                                                                         *)
(* Every stage function is an operator from (state, environment, LLM       *)
(* script) to the returned state and the number of LLM calls and seconds   *)
(* slept.  An LLM script is what the model would answer on the 1st, 2nd,   *)
(* ... call of one stage invocation: network failures, then one response;  *)
(* a call past the end of the script gets the stage's well-formed answer.  *)
(***************************************************************************)
EXTENDS Integers, Sequences, FiniteSets, TLC

VARIABLES
    state,          \* the graph's channels: the GraphState dict
    env,            \* process environment: API key, the CSV file, the disk
    pc,             \* the node the graph runs next, END, or GraphRecursionError
    trace,          \* the nodes invoked so far, in order
    first_status,   \* node -> the status its first invocation returned
    llm_log,        \* the LLM responses consumed by the last node invocation
    slept,          \* seconds slept (time.sleep) by the last node invocation
    branch_state,   \* the dict the last routing function was handed, as it left it
    final_state,    \* streamlit's final_state: the last streamed node output
    files           \* the chart files that exist on disk

vars == <<state, env, pc, trace, first_status, llm_log, slept, branch_state, final_state,
          files>>

----------------------------------------------------------------------------
(* Bounds of the model *)
MaxRows == 5
MaxCols == 2
ScriptLen == 3
MaxFigures == 2
MaxNameLen == 4

(* Program constants *)
MinRows == 5
MinColumns == 2
safety_max_retries == 2
max_retries_one_more == 3 + 1
max_retries == 3
base_delay_three == 2 + 1
base_delay == 2
recursion_limit == 25

\* str.strip(chars), on a text as the sequence of its pieces; str.strip() is
\* strip(text, Whitespace)
RECURSIVE lstrip(_, _)
lstrip(name, chars) ==
    IF name # << >> /\ Head(name) \in chars THEN lstrip(Tail(name), chars) ELSE name
RECURSIVE rstrip(_, _)
rstrip(name, chars) ==
    IF name # << >> /\ name[Len(name)] \in chars
    THEN rstrip(SubSeq(name, 1, Len(name) - 1), chars) ELSE name
strip(name, chars) == rstrip(lstrip(name, chars), chars)

Whitespace == {" "}

----------------------------------------------------------------------------
(* Python dict and Optional *)
None == << >>
Some(v) == <<v>>

Range(seq) == { seq[k] : k \in DOMAIN seq }

Has(d, k) == k \in DOMAIN d
Get(d, k, default) == IF k \in DOMAIN d THEN d[k] ELSE default
Put(d, k, v) == [x \in DOMAIN d \cup {k} |-> IF x = k THEN v ELSE d[x]]

\* Python truthiness: of an Optional object, of an Optional list, of a string
TruthyObj(opt) == opt # None
TruthyList(opt) == opt # None /\ opt[1] # << >>
TruthyStr(s) == s # ""

END == "__end__"

\* the text of constructor, file and parse exceptions is not part of the
\* messages of the model; the text of an exception raised by an LLM call is
\* mutant: the status is set and the message is not
Fail_without_message(st, msg) == Put(st, "status", "error")

Fail(st, msg) == Put(Put(st, "status", "error"), "error_message", Some(msg))

----------------------------------------------------------------------------
(* LLM responses *)
\* an exception raised by the call, with its text str(e)
NetworkError == [kind |-> "network", e |-> "Connection aborted."]
OtherError == [kind |-> "exception", e |-> "internal failure"]

DeclinePhrase == "I am a report generator AI and do not have information on that topic"
DeclineSentence == DeclinePhrase \o ". Please give instructions related to data report generation."

\* str.strip() on the key_observations values of the model
Strip(s) == IF s = " " \o DeclineSentence \o " " THEN DeclineSentence ELSE s

\* the response at 0-based attempt `attempt`
LlmInvoke(script, attempt) ==
    IF attempt + 1 <= Len(script.responses) THEN script.responses[attempt + 1] ELSE script.then

FailedAfter(n, e) ==
    "Failed to get a response from the LLM after " \o ToString(n) \o " attempts: " \o e

\* what a stage invocation returns: the state, the LLM calls made, the seconds
\* slept, whether the function raised instead of returning, and the files it
\* wrote
Returned(st, calls, sl) ==
    [state |-> st, calls |-> calls, slept |-> sl, raised |-> FALSE, wrote |-> {}]
Raised(st, calls, sl) ==
    [state |-> st, calls |-> calls, slept |-> sl, raised |-> TRUE, wrote |-> {}]
\* the same return, having written the files `paths`
Wrote(r, paths) ==
    [state |-> r.state, calls |-> r.calls, slept |-> r.slept, raised |-> r.raised, wrote |-> paths]

\* scripts: up to ScriptLen - 1 network failures, then a response of A; any
\* later call is answered by `good`
Scripts(A, good) ==
    { [responses |-> [i \in 1..n |-> IF i < n THEN NetworkError ELSE r], then |-> good]
      : n \in 1..ScriptLen, r \in A }

----------------------------------------------------------------------------
(* Data profiling stage: src/src/agents/data_analysis_node.py *)

DataAnalysisResponses ==
    {NetworkError, OtherError}
    \cup { [kind |-> "text", has_phrase |-> TRUE, json |-> j, key_observations |-> DeclineSentence]
           : j \in {"invalid", "valid"} }
    \cup { [kind |-> "text", has_phrase |-> FALSE, json |-> j, key_observations |-> ""]
           : j \in {"invalid", "schema"} }
    \cup { [kind |-> "text", has_phrase |-> FALSE, json |-> "valid", key_observations |-> k]
           : k \in {DeclineSentence, " " \o DeclineSentence \o " ", "The dataset looks clean."} }

DataAnalysisGood ==
    [kind |-> "text", has_phrase |-> FALSE, json |-> "valid",
     key_observations |-> "The dataset looks clean."]

\* mutant: the stage without the raw-substring guard of lines 177-180
data_analysis_reply_no_guard(st, profile_data, r) ==
    IF r.json = "invalid"
    THEN Fail(st, "LLM output was invalid JSON or malformed.")
    ELSE IF r.json = "schema"
    THEN Fail(st, "An unexpected error occurred during data analysis")
    ELSE IF Strip(r.key_observations) = DeclineSentence
    THEN Put(Put(st, "status", "invalid_instructions"), "error_message", Some(r.key_observations))
    ELSE Put(Put(st, "dataframe_profile",
                 Some([profile_data EXCEPT !.key_observations = r.key_observations])),
             "status", "data_profiled")

\* mutant: the profile is stored before the decline is detected
data_analysis_reply_profile_first(st, profile_data, r) ==
    IF r.has_phrase
    THEN Fail(st, "User instructions were not related to data report generation.")
    ELSE IF r.json = "invalid"
    THEN Fail(st, "LLM output was invalid JSON or malformed.")
    ELSE IF r.json = "schema"
    THEN Fail(st, "An unexpected error occurred during data analysis")
    ELSE LET stored == Put(st, "dataframe_profile",
                           Some([profile_data EXCEPT !.key_observations = r.key_observations]))
         IN  IF Strip(r.key_observations) = DeclineSentence
             THEN Put(Put(stored, "status", "invalid_instructions"),
                      "error_message", Some(r.key_observations))
             ELSE Put(stored, "status", "data_profiled")

\* lines 175-206 and the handlers of lines 220-232: what the stage does with
\* the text the LLM returned
data_analysis_reply(st, profile_data, r) ==
    IF r.has_phrase
    THEN Fail(st, "User instructions were not related to data report generation.")
    ELSE IF r.json = "invalid"
    THEN Fail(st, "LLM output was invalid JSON or malformed.")
    ELSE IF r.json = "schema"
    THEN Fail(st, "An unexpected error occurred during data analysis")
    ELSE IF Strip(r.key_observations) = DeclineSentence
    THEN Put(Put(st, "status", "invalid_instructions"), "error_message", Some(r.key_observations))
    ELSE Put(Put(st, "dataframe_profile",
                 Some([profile_data EXCEPT !.key_observations = r.key_observations])),
             "status", "data_profiled")

\* the retry loop of lines 129-235
RECURSIVE data_analysis_llm(_, _, _, _, _)
data_analysis_llm(st, profile_data, script, attempt, sl) ==
    IF attempt >= max_retries
    THEN Returned(Fail(st, "An unexpected failure occurred after all LLM retries."), attempt, sl)
    ELSE
    LET r == LlmInvoke(script, attempt)
        done(s) == Returned(s, attempt + 1, sl)
    IN  CASE r.kind = "network" ->
               IF attempt < max_retries - 1
               THEN data_analysis_llm(st, profile_data, script, attempt + 1,
                                      sl + base_delay * (2 ^ attempt))
               ELSE done(Fail(st, FailedAfter(max_retries, r.e)))
          [] r.kind = "exception" ->
               done(Fail(st, "An unexpected error occurred during data analysis" \o ": " \o r.e))
          [] OTHER -> done(data_analysis_reply(st, profile_data, r))

\* the table pd.read_csv returns: column i is named c<i>; odd columns are
\* numeric, even columns hold text.  Every cell holds a value, but for the
\* cells of the numeric columns of a file with numeric_nulls, which are all
\* null (such a column is still of a numeric dtype).  The text columns of a
\* file with dates hold date strings; pd.read_csv, called without
\* parse_dates, reads them as dtype object like any text.
Column(i) == [name |-> "c" \o ToString(i), numeric |-> i % 2 = 1]
DataFrame(csv) ==
    [i \in 1..csv.cols |->
       [name |-> Column(i).name, numeric |-> Column(i).numeric,
        all_null |-> Column(i).numeric /\ csv.numeric_nulls,
        dates |-> ~Column(i).numeric /\ csv.dates]]

\* lines 81-121: the details of the columns, by column.  The mean and the
\* standard deviation of a numeric column are stored as None when pandas
\* gives NaN: the mean of a column without a value, the standard deviation of
\* a column with fewer than two values.
A_MEAN == 1
A_STD == 1
column_details(csv) ==
    [i \in 1..csv.cols |->
       IF Column(i).numeric
       THEN [name |-> Column(i).name, type |-> "float64",
             mean |-> IF csv.numeric_nulls THEN None ELSE Some(A_MEAN),
             std |-> IF csv.numeric_nulls \/ csv.rows < 2 THEN None ELSE Some(A_STD)]
       ELSE [name |-> Column(i).name, type |-> "object"]]

\* lines 74-79, 81-121: the profile before the LLM call
profile_data_of(csv) ==
    [num_rows |-> csv.rows, num_columns |-> csv.cols, column_details |-> column_details(csv),
     key_observations |-> ""]

\* the profile summary of insight_generation_node (lines 55-65) and of
\* report_drafting_node (lines 62-70): f"{details['mean']:.2f}" and
\* f"{details['std']:.2f}" raise TypeError for None
profile_summary_raises(dataframe_profile) ==
    \E i \in DOMAIN dataframe_profile.column_details :
      LET details == dataframe_profile.column_details[i]
      IN  /\ "mean" \in DOMAIN details
          /\ details.mean = None \/ details.std = None

\* mutant: the API key is looked for before the file path
data_analysis_node_key_first(st, e, script) ==
    IF ~e.api_key
    THEN Returned(Fail(st, "API key for Gemini not found. Please set GEMINI_API_KEY in your .env file."), 0, 0)
    ELSE IF ~TruthyStr(Get(st, "file_path", ""))
    THEN Returned(Fail(st, "Cannot perform data analysis: A file path was not provided."), 0, 0)
    ELSE IF ~e.llm_ctor_ok
    THEN Returned(Fail(st, "Failed to initialize LLM for data analysis"), 0, 0)
    ELSE IF ~e.csv.readable
    THEN Returned(Fail(st, "Failed to load or process CSV file"), 0, 0)
    ELSE IF e.csv.rows = 0
    THEN Returned(Fail(st, "Failed to load or process CSV file: Uploaded CSV is empty."), 0, 0)
    ELSE data_analysis_llm(st,
                           profile_data_of(e.csv),
                           script, 0, 0)

data_analysis_node(st, e, script) ==
    IF ~TruthyStr(Get(st, "file_path", ""))
    THEN Returned(Fail(st, "Cannot perform data analysis: A file path was not provided."), 0, 0)
    ELSE IF ~e.api_key
    THEN Returned(Fail(st, "API key for Gemini not found. Please set GEMINI_API_KEY in your .env file."), 0, 0)
    ELSE IF ~e.llm_ctor_ok
    THEN Returned(Fail(st, "Failed to initialize LLM for data analysis"), 0, 0)
    ELSE IF ~e.csv.readable
    THEN Returned(Fail(st, "Failed to load or process CSV file"), 0, 0)
    ELSE IF e.csv.rows = 0                                  \* df.empty, line 68
    THEN Returned(Fail(st, "Failed to load or process CSV file: Uploaded CSV is empty."), 0, 0)
    ELSE data_analysis_llm(st,
                           profile_data_of(e.csv),
                           script, 0, 0)

----------------------------------------------------------------------------
(* Routing after data_analysis: src/src/graph/builder.py *)

\* mutant: the row threshold off by one
check_analysis_validity_off_by_one(st) ==
    LET profile == Get(st, "dataframe_profile", None)
    IN  IF profile = None THEN END
        ELSE IF profile[1].num_rows <= MinRows \/ profile[1].num_columns < MinColumns THEN END
        ELSE "visualization"

check_analysis_validity(st) ==
    LET profile == Get(st, "dataframe_profile", None)
    IN  IF profile = None THEN END
        ELSE IF profile[1].num_rows < MinRows \/ profile[1].num_columns < MinColumns THEN END
        ELSE "visualization"

----------------------------------------------------------------------------
(* Visualization stage: src/src/agents/visualization_node.py *)

ColumnNames(df) == { df[i].name : i \in DOMAIN df }
is_numeric_dtype(df, col) == \E i \in DOMAIN df : df[i].name = col /\ df[i].numeric

\* VisualGenerationInstruction: type, columns, description
Instruction(type, columns) ==
    [type |-> type, columns |-> columns, description |-> type \o " chart"]

NumericPlotTypes == {"histogram", "boxplot", "line", "scatter"}

\* mutant: a histogram of two columns is drawn from the first
chart_code_str_histogram_of_two(instruction) ==
    LET cols == instruction.columns
        n == Len(cols)
        xy == "(x='" \o cols[1] \o "', y='" \o cols[2] \o "', data="
    IN  CASE instruction.type = "bar" /\ n = 2 -> Some("sns.barplot" \o xy \o "df, ax=ax)")
          [] instruction.type = "bar" /\ n = 1 ->
               Some("sns.countplot(x='" \o cols[1] \o "', data=df, ax=ax)")
          [] instruction.type = "line" /\ n = 2 ->
               Some("df_sorted = df.sort_values(by='" \o cols[1] \o "')\nsns.lineplot"
                    \o xy \o "df_sorted, ax=ax)")
          [] instruction.type = "scatter" /\ n = 2 -> Some("sns.scatterplot" \o xy \o "df, ax=ax)")
          [] instruction.type = "histogram" /\ n \in {1, 2} ->
               Some("sns.histplot(df['" \o cols[1] \o "'], kde=True, ax=ax)")
          [] instruction.type = "boxplot" /\ n = 1 ->
               Some("sns.boxplot(y=df['" \o cols[1] \o "'], ax=ax)")
          [] instruction.type = "boxplot" /\ n = 2 -> Some("sns.boxplot" \o xy \o "df, ax=ax)")
          [] OTHER -> None

\* the plotting call recorded for a supported type and number of columns
\* (lines 53-122), or None
chart_code_str(instruction) ==
    LET cols == instruction.columns
        n == Len(cols)
        xy == "(x='" \o cols[1] \o "', y='" \o cols[2] \o "', data="
    IN  CASE instruction.type = "bar" /\ n = 2 -> Some("sns.barplot" \o xy \o "df, ax=ax)")
          [] instruction.type = "bar" /\ n = 1 ->
               Some("sns.countplot(x='" \o cols[1] \o "', data=df, ax=ax)")
          [] instruction.type = "line" /\ n = 2 ->
               Some("df_sorted = df.sort_values(by='" \o cols[1] \o "')\nsns.lineplot"
                    \o xy \o "df_sorted, ax=ax)")
          [] instruction.type = "scatter" /\ n = 2 -> Some("sns.scatterplot" \o xy \o "df, ax=ax)")
          [] instruction.type = "histogram" /\ n = 1 ->
               Some("sns.histplot(df['" \o cols[1] \o "'], kde=True, ax=ax)")
          [] instruction.type = "boxplot" /\ n = 1 ->
               Some("sns.boxplot(y=df['" \o cols[1] \o "'], ax=ax)")
          [] instruction.type = "boxplot" /\ n = 2 -> Some("sns.boxplot" \o xy \o "df, ax=ax)")
          [] OTHER -> None

\* str(df[col].dtype) for the columns of the model
dtype(df, col) == IF is_numeric_dtype(df, col) THEN "float64" ELSE "object"
is_object_dtype(df, col) == dtype(df, col) = "object"
\* 'date' in name.lower() or 'time' in name.lower(), over the names of dtypes
mentions_date_or_time(dtype_name) == dtype_name \in {"datetime64[ns]", "timedelta64[ns]"}

\* lines 70-71: whether the x column is converted with pd.to_datetime
converts_x_to_datetime(df, x_col) ==
    is_object_dtype(df, x_col) /\ mentions_date_or_time(dtype(df, x_col))

\* lines 70-78: df_sorted.empty, df_sorted the table sorted by x_col without
\* the rows that hold a null in x_col or y_col (after errors='coerce', a value
\* of a converted x column that is not a date)
df_sorted_empty(df, instruction) ==
    \E i \in DOMAIN df :
      /\ df[i].name \in Range(instruction.columns)
      /\ \/ df[i].all_null
         \/ /\ df[i].name = instruction.columns[1]
            /\ converts_x_to_datetime(df, instruction.columns[1])
            /\ ~df[i].dates

\* mutant: the dtype of the columns is not checked
generate_chart_no_dtype_check(df, instruction, draw_ok) ==
    LET rejected == [chart_code |-> None, saved |-> FALSE]
    IN  IF instruction.columns = << >>
           \/ \E k \in DOMAIN instruction.columns : instruction.columns[k] \notin ColumnNames(df)
        THEN rejected
        ELSE IF chart_code_str(instruction) = None
        THEN rejected
        ELSE IF instruction.type = "line" /\ df_sorted_empty(df, instruction)
        THEN rejected
        ELSE IF ~draw_ok
        THEN rejected
        ELSE [chart_code |-> chart_code_str(instruction), saved |-> TRUE]

\* generate_chart: the chart code returned (None when no chart was made) and
\* whether plt.savefig wrote output_path.  draw_ok: the plotting calls and
\* savefig raise nothing.
generate_chart(df, instruction, draw_ok) ==
    LET rejected == [chart_code |-> None, saved |-> FALSE]
    IN  IF instruction.columns = << >>
           \/ \E k \in DOMAIN instruction.columns : instruction.columns[k] \notin ColumnNames(df)
        THEN rejected
        ELSE IF instruction.type \in NumericPlotTypes
                /\ \E k \in DOMAIN instruction.columns : ~is_numeric_dtype(df, instruction.columns[k])
        THEN rejected
        ELSE IF chart_code_str(instruction) = None
        THEN rejected
        ELSE IF instruction.type = "line" /\ df_sorted_empty(df, instruction)
        THEN rejected                                  \* lines 78-82
        ELSE IF ~draw_ok
        THEN rejected                                  \* except Exception, lines 140-143
        ELSE [chart_code |-> chart_code_str(instruction), saved |-> TRUE]

\* the instructions the suggestion call returns in a workflow run: a histogram
\* of a numeric column, and one of a text column
HistNumeric == Instruction("histogram", <<"c1">>)
HistText == Instruction("histogram", <<"c2">>)

\* suggestion lists: none, one that renders, one that does not, and a failed
\* render followed by a successful one
SuggestionLists ==
    { << >>, <<HistNumeric>>, <<HistText>>, <<HistText, HistNumeric>> }

VisualizationResponses ==
    {NetworkError, OtherError}
    \cup { [kind |-> "text", json |-> j, suggestions |-> << >>] : j \in {"invalid", "schema"} }
    \cup { [kind |-> "text", json |-> "valid", suggestions |-> s] : s \in SuggestionLists }

VisualizationGood ==
    [kind |-> "text", json |-> "valid", suggestions |-> <<HistNumeric>>]

\* mutant: the 0-based index of the loop is used as it is
visual_id_zero_based(request_id, i) == "chart_" \o request_id \o "_" \o ToString(i - 1)

visual_id(request_id, i) == "chart_" \o request_id \o "_" \o ToString(i)
output_file_path(request_id, i) == "local_app_data/charts/" \o visual_id(request_id, i) \o ".png"

\* the rendering loop of lines 289-314; i is the 1-based position (i + 1 of
\* the source).  Gives the visuals appended and the files written.
RECURSIVE render_all(_, _, _, _, _)
render_all(request_id, df, suggested_visuals, i, draw_ok) ==
    IF i > Len(suggested_visuals) THEN [visuals |-> << >>, wrote |-> {}]
    ELSE LET instruction == suggested_visuals[i]
             chart == generate_chart(df, instruction, draw_ok)
             rest == render_all(request_id, df, suggested_visuals, i + 1, draw_ok)
             path == output_file_path(request_id, i)
             wrote == IF chart.saved THEN {path} \cup rest.wrote ELSE rest.wrote
         IN  IF chart.chart_code # None /\ TruthyStr(chart.chart_code[1])   \* if chart_code:
             THEN [visuals |-> <<[visual_id |-> visual_id(request_id, i),
                                  type |-> instruction.type,
                                  description |-> instruction.description,
                                  file_path |-> path,
                                  chart_code |-> chart.chart_code[1]]>> \o rest.visuals,
                   wrote |-> wrote]
             ELSE [visuals |-> rest.visuals, wrote |-> wrote]

\* mutant: a suggestion that does not render fails the stage
visualization_render_strict(st, df, suggested_visuals, draw_ok) ==
    LET rendered == render_all(st["request_id"], df, suggested_visuals, 1, draw_ok)
    IN  IF Len(rendered.visuals) < Len(suggested_visuals)
        THEN [state |-> Fail(st, "Chart generation failed."), wrote |-> rendered.wrote]
        ELSE [state |-> Put(Put(st, "generated_visuals", Some(rendered.visuals)),
                            "status", "visuals_generated"),
              wrote |-> rendered.wrote]

visualization_render(st, df, suggested_visuals, draw_ok) ==
    LET rendered == render_all(st["request_id"], df, suggested_visuals, 1, draw_ok)
    IN  [state |-> Put(Put(st, "generated_visuals", Some(rendered.visuals)),
                       "status", "visuals_generated"),
         wrote |-> rendered.wrote]

\* the retry loop of lines 194-283
RECURSIVE visualization_llm(_, _, _, _, _, _)
visualization_llm(st, df, script, attempt, sl, draw_ok) ==
    IF attempt >= max_retries
    THEN Returned(visualization_render(st, df, << >>, draw_ok).state, attempt, sl)
    ELSE IF st["dataframe_profile"] = None
    THEN Returned(Fail(st, "An unexpected error occurred during visualization suggestion LLM call"),
                  attempt, sl)
    ELSE
    LET r == LlmInvoke(script, attempt)
        done(s) == Returned(s, attempt + 1, sl)
    IN  CASE r.kind = "network" ->
               IF attempt < max_retries - 1
               THEN visualization_llm(st, df, script, attempt + 1,
                                      sl + base_delay * (2 ^ attempt), draw_ok)
               ELSE done(Fail(st, FailedAfter(max_retries, r.e)))
          [] r.kind = "exception" ->
               done(Fail(st, "An unexpected error occurred during visualization suggestion LLM call" \o ": " \o r.e))
          [] OTHER ->
               IF r.json # "valid"
               THEN done(Fail(st, "LLM output for visualization suggestions was invalid JSON or schema"))
               ELSE LET out == visualization_render(st, df, r.suggestions, draw_ok)
                    IN  Wrote(done(out.state), out.wrote)

visualization_node(st, e, script, draw_ok) ==
    IF ~({"request_id", "file_path", "instructions", "dataframe_profile", "status"} \subseteq DOMAIN st)
    THEN Raised(st, 0, 0)                                   \* KeyError
    ELSE IF ~e.api_key
    THEN Returned(Fail(st, "API key for Gemini not found. Please set GEMINI_API_KEY in your .env file."), 0, 0)
    ELSE IF ~e.llm_ctor_ok
    THEN Raised(st, 0, 0)                                   \* line 169, outside the try
    ELSE IF ~e.csv.readable \/ e.csv.rows = 0
    THEN Returned(Fail(st, "Failed to load or process CSV for visualization"), 0, 0)
    ELSE visualization_llm(st, DataFrame(e.csv), script, 0, 0, draw_ok)

----------------------------------------------------------------------------
(* Insight stage: src/src/agents/insight_generation_node.py *)

InsightLists == { << >>, <<[insight_id |-> "insight_1"]>> }

InsightResponses ==
    {NetworkError, OtherError}
    \cup { [kind |-> "text", json |-> j, insights |-> << >>] : j \in {"invalid", "schema"} }
    \cup { [kind |-> "text", json |-> "valid", insights |-> l] : l \in InsightLists }

InsightGood == [kind |-> "text", json |-> "valid", insights |-> <<[insight_id |-> "insight_1"]>>]

\* mutant: an empty insight list is stored like any other
insight_finish_accepts_empty(st, generated_insights) ==
    Put(Put(st, "analysis_insights", Some(generated_insights)), "status", "insights_generated")

insight_finish(st, generated_insights) ==
    IF generated_insights # << >>
    THEN Put(Put(st, "analysis_insights", Some(generated_insights)), "status", "insights_generated")
    ELSE Fail(st, "An unexpected failure occurred after all LLM retries or no insights were generated.")

\* the retry loop of lines 80-170
RECURSIVE insight_generation_llm(_, _, _, _)
insight_generation_llm(st, script, attempt, sl) ==
    IF attempt >= max_retries
    THEN Returned(insight_finish(st, << >>), attempt, sl)
    ELSE
    LET r == LlmInvoke(script, attempt)
        done(s) == Returned(s, attempt + 1, sl)
    IN  CASE r.kind = "network" ->
               IF attempt < max_retries - 1
               THEN insight_generation_llm(st, script, attempt + 1, sl + base_delay * (2 ^ attempt))
               ELSE done(Fail(st, FailedAfter(max_retries, r.e)))
          [] r.kind = "exception" ->
               done(Fail(st, "An unexpected error occurred during insight generation LLM call" \o ": " \o r.e))
          [] OTHER ->
               IF r.json # "valid"
               THEN done(Fail(st, "LLM output for insights was invalid JSON or schema"))
               ELSE done(insight_finish(st, r.insights))

insight_generation_node(st, e, script) ==
    IF ~Has(st, "request_id")
    THEN Raised(st, 0, 0)                                   \* KeyError
    ELSE IF ~TruthyObj(Get(st, "dataframe_profile", None))
            \/ ~TruthyList(Get(st, "generated_visuals", None))
    THEN Returned(Fail(st, "Cannot generate insights: Missing data profile or generated visuals."), 0, 0)
    ELSE IF ~Has(st, "status")
    THEN Raised(st, 0, 0)                                   \* KeyError, line 39
    ELSE IF ~e.api_key
    THEN Returned(Fail(st, "API key for Gemini not found. Please set GEMINI_API_KEY in your .env file."), 0, 0)
    ELSE IF ~e.llm_ctor_ok
    THEN Returned(Fail(st, "Failed to initialize LLM for insight generation"), 0, 0)
    ELSE IF profile_summary_raises(st["dataframe_profile"][1])
    THEN Raised(st, 0, 0)                                   \* TypeError, line 63
    ELSE insight_generation_llm(st, script, 0, 0)
----------------------------------------------------------------------------
(* Drafting stage: src/src/agents/report_drafting_node.py *)

\* the generic figure placeholder of the drafts
Placeholder(n) == "[FIGURE " \o ToString(n) \o "]"

\* ReportSectionsDraft.  A text is the sequence of its words; figure_id_map is
\* a function from placeholders to visual ids (None and {} are both << >>).
Draft(narratives, figure_id_map) ==
    [dataset_title |-> "Sales", introduction_text |-> "Introduction.",
     analysis_narratives |-> narratives, figure_id_map |-> figure_id_map,
     key_takeaways_bullet_points |-> <<"Sales rose.">>, conclusion_text |-> "Conclusion."]

\* the drafts the drafting call returns in a workflow run
DraftA == Draft(<< <<"Sales", ":-", "rose", Placeholder(1)>> >>,
                Placeholder(1) :> "chart_req_1")
DraftB == Draft(<< <<"Sales", ":-", "see", Placeholder(1), Placeholder(2)>> >>,
                Placeholder(1) :> "chart_req_2")
Drafts == {DraftA, DraftB}

DraftingResponses ==
    {NetworkError, OtherError}
    \cup { [kind |-> "text", json |-> j, draft |-> << >>] : j \in {"invalid", "schema"} }
    \cup { [kind |-> "text", json |-> "valid", draft |-> d] : d \in Drafts }

DraftingGood == [kind |-> "text", json |-> "valid", draft |-> DraftA]

\* the retry loop of lines 100-217
RECURSIVE report_drafting_llm(_, _, _, _)
report_drafting_llm(st, script, attempt, sl) ==
    IF attempt >= max_retries
    THEN Returned(Fail(st, "An unexpected failure occurred after all LLM retries or no report draft was generated."),
                  attempt, sl)
    ELSE
    LET r == LlmInvoke(script, attempt)
        done(s) == Returned(s, attempt + 1, sl)
    IN  CASE r.kind = "network" ->
               IF attempt < max_retries - 1
               THEN report_drafting_llm(st, script, attempt + 1, sl + base_delay * (2 ^ attempt))
               ELSE done(Fail(st, FailedAfter(max_retries, r.e)))
          [] r.kind = "exception" ->
               done(Fail(st, "An unexpected error occurred during report drafting LLM call" \o ": " \o r.e))
          [] OTHER ->
               IF r.json # "valid"
               THEN done(Fail(st, "LLM output for report draft was invalid JSON or schema"))
               ELSE done(Put(Put(st, "report_sections_draft", Some(r.draft)),
                             "status", "report_drafted"))

report_drafting_node(st, e, script) ==
    IF ~Has(st, "request_id")
    THEN Raised(st, 0, 0)                                   \* KeyError
    ELSE IF ~TruthyObj(Get(st, "dataframe_profile", None))
            \/ ~TruthyList(Get(st, "analysis_insights", None))
            \/ ~TruthyList(Get(st, "generated_visuals", None))
    THEN Returned(Fail(st, "Cannot draft report: Missing data profile, insights, or visuals."), 0, 0)
    ELSE IF ~Has(st, "status")
    THEN Raised(st, 0, 0)                                   \* KeyError, line 44
    ELSE IF ~e.api_key
    THEN Returned(Fail(st, "API key for Gemini not found. Please set GEMINI_API_KEY in your .env file."), 0, 0)
    ELSE IF ~e.llm_ctor_ok
    THEN Returned(Fail(st, "Failed to initialize LLM for report drafting"), 0, 0)
    ELSE IF profile_summary_raises(st["dataframe_profile"][1])
    THEN Raised(st, 0, 0)                                   \* TypeError, line 68
    ELSE report_drafting_llm(st, script, 0, 0)

----------------------------------------------------------------------------
(* Safety and accuracy check: src/src/agents/safety_node.py *)

\* SafetyCheckResult.reasoning of the verdicts of the model
Reasoning(is_safe, is_accurate) ==
    IF ~is_safe THEN "harmful content"
    ELSE IF ~is_accurate THEN "figures do not match" ELSE "consistent"

\* a value of the parsed JSON object: parser.invoke returns the object as a
\* dict and does not validate it against SafetyCheckResult
JsonBool(b) == [bool |-> b]
JsonStr(str) == [str |-> str]
JsonNum(n) == [num |-> n]
\* bool(value), as `not value` takes it
truthy(value) ==
    IF "bool" \in DOMAIN value THEN value.bool
    ELSE IF "str" \in DOMAIN value THEN value.str # ""
    ELSE value.num # 0
\* str(value), as the f-string formats it
py_str(value) ==
    IF "str" \in DOMAIN value THEN value.str
    ELSE IF "num" \in DOMAIN value THEN ToString(value.num)
    ELSE IF value.bool THEN "True" ELSE "False"

\* the object of a reply that is a SafetyCheckResult
SafetyResult(is_safe, is_accurate) ==
    ("is_safe" :> JsonBool(is_safe)) @@ ("is_accurate" :> JsonBool(is_accurate))
    @@ ("reasoning" :> JsonStr(Reasoning(is_safe, is_accurate)))
Without(result, key) == [k \in DOMAIN result \ {key} |-> result[k]]

\* objects that are JSON but no SafetyCheckResult: a key is missing, or the
\* values are of the wrong types
SchemaInvalidResults ==
    { Without(SafetyResult(TRUE, TRUE), "reasoning"),
      ("is_safe" :> JsonStr("unknown")) @@ ("is_accurate" :> JsonStr("unknown"))
        @@ ("reasoning" :> JsonNum(7)),
      Without(SafetyResult(TRUE, TRUE), "is_safe"),
      Without(SafetyResult(TRUE, TRUE), "is_accurate"),
      Without(SafetyResult(FALSE, TRUE), "reasoning") }

SafetyResponses ==
    {NetworkError, OtherError}
    \cup { [kind |-> "text", json |-> "invalid", result |-> << >>] }
    \cup { [kind |-> "text", json |-> "schema", result |-> r] : r \in SchemaInvalidResults }
    \cup { [kind |-> "text", json |-> "valid", result |-> SafetyResult(a, b)]
           : a \in BOOLEAN, b \in BOOLEAN }

SafetyGood == [kind |-> "text", json |-> "valid", result |-> SafetyResult(TRUE, TRUE)]

\* lines 136-140: an exception of the attempt that is no network failure
internal_error(st, e) ==
    Fail(st, "Report validation failed due to an internal error" \o ": " \o e)
\* str(KeyError(key))
KeyError(key) == "'" \o key \o "'"

\* mutant: accuracy is looked at before safety
safety_verdict_accuracy_first(st, validated_result) ==
    IF ~Has(validated_result, "is_accurate") THEN internal_error(st, KeyError("is_accurate"))
    ELSE IF ~truthy(validated_result["is_accurate"])
    THEN IF ~Has(validated_result, "reasoning") THEN internal_error(st, KeyError("reasoning"))
         ELSE Fail(st, "Accuracy check failed: " \o py_str(validated_result["reasoning"]))
    ELSE IF ~Has(validated_result, "is_safe") THEN internal_error(st, KeyError("is_safe"))
    ELSE IF ~truthy(validated_result["is_safe"])
    THEN IF ~Has(validated_result, "reasoning") THEN internal_error(st, KeyError("reasoning"))
         ELSE Fail(st, "Safety check failed: " \o py_str(validated_result["reasoning"]))
    ELSE Put(st, "status", "safety_checked")

\* lines 103-120: what the stage does with the parsed object; a key it reads
\* and does not find raises KeyError, caught at line 136
safety_verdict(st, validated_result) ==
    IF ~Has(validated_result, "is_safe") THEN internal_error(st, KeyError("is_safe"))
    ELSE IF ~truthy(validated_result["is_safe"])
    THEN IF ~Has(validated_result, "reasoning") THEN internal_error(st, KeyError("reasoning"))
         ELSE Fail(st, "Safety check failed: " \o py_str(validated_result["reasoning"]))
    ELSE IF ~Has(validated_result, "is_accurate") THEN internal_error(st, KeyError("is_accurate"))
    ELSE IF ~truthy(validated_result["is_accurate"])
    THEN IF ~Has(validated_result, "reasoning") THEN internal_error(st, KeyError("reasoning"))
         ELSE Fail(st, "Accuracy check failed: " \o py_str(validated_result["reasoning"]))
    ELSE Put(st, "status", "safety_checked")

\* the retry loop of lines 67-146
RECURSIVE safety_check_llm(_, _, _, _)
safety_check_llm(st, script, attempt, sl) ==
    IF attempt >= max_retries
    THEN Returned(Fail(st, "An unexpected error occurred during the safety check."), attempt, sl)
    ELSE
    LET r == LlmInvoke(script, attempt)
        done(s) == Returned(s, attempt + 1, sl)
    IN  CASE r.kind = "network" ->
               IF attempt < max_retries - 1
               THEN safety_check_llm(st, script, attempt + 1, sl + base_delay * (2 ^ attempt))
               ELSE done(Fail(st, FailedAfter(max_retries, r.e)))
          [] r.kind = "exception" -> done(internal_error(st, r.e))
          [] OTHER ->
               IF r.json = "invalid"
               THEN done(Fail(st, "Report validation failed due to an internal error"))
               ELSE done(safety_verdict(st, r.result))

\* mutant: a missing input fails the stage
safety_check_node_missing_is_error(st, e, script) ==
    IF ~TruthyObj(Get(st, "report_sections_draft", None))
       \/ ~TruthyObj(Get(st, "dataframe_profile", None))
       \/ ~TruthyStr(Get(st, "instructions", ""))
    THEN Returned(Fail(st, "Missing required state information for safety check."), 0, 0)
    ELSE IF ~e.api_key \/ ~e.llm_ctor_ok
    THEN Returned(Fail(st, "Failed to initialize LLM for safety check"), 0, 0)
    ELSE safety_check_llm(st, script, 0, 0)

safety_check_node(st, e, script) ==
    IF ~TruthyObj(Get(st, "report_sections_draft", None))
       \/ ~TruthyObj(Get(st, "dataframe_profile", None))
       \/ ~TruthyStr(Get(st, "instructions", ""))
    THEN Returned(st, 0, 0)
    ELSE IF ~e.api_key \/ ~e.llm_ctor_ok
    THEN Returned(Fail(st, "Failed to initialize LLM for safety check"), 0, 0)
    ELSE safety_check_llm(st, script, 0, 0)

----------------------------------------------------------------------------
(* Finalization stage: src/src/agents/report_finalization_node.py *)

\* the disk as the stage finds it: whether the Markdown file can be written,
\* whether the PDF can be generated, and the chart files that exist
Disks == [md_write_ok : BOOLEAN, pdf_ok : BOOLEAN]
DiskWith(d, existing) == [md_write_ok |-> d.md_write_ok, pdf_ok |-> d.pdf_ok, files |-> existing]

\* mutant: only the first occurrence is replaced
Replace_first_only(text, old, new) ==
    [k \in DOMAIN text |->
       IF text[k] = old /\ \A j \in 1..(k - 1) : text[j] # old THEN new ELSE text[k]]

\* str.replace(old, new) on a text
Replace(text, old, new) == [k \in DOMAIN text |-> IF text[k] = old THEN new ELSE text[k]]

\* re.findall(r'\[FIGURE (\d+)\]', narrative), as a set of numbers
figure_placeholders_in_narrative(narrative) ==
    { n \in 1..MaxFigures : Placeholder(n) \in Range(narrative) }

\* visuals_by_id.get(visual_id): the last visual of that id, or None
visuals_by_id_get(generated_visuals, id) ==
    LET at == { k \in DOMAIN generated_visuals : generated_visuals[k].visual_id = id }
    IN  IF at = {} THEN None
        ELSE Some(generated_visuals[CHOOSE k \in at : \A j \in at : j <= k])

abspath(path) == "/app/" \o path

\* str(e) of the exception write_pdf raises, and of the TypeError that
\* state['error_message'] += ... raises on None (line 179)
PdfError == "PDF generation failed"
NoneTypeError == "unsupported operand type(s) for +=: 'NoneType' and 'str'"

\* mutant: the image file is not looked for
visual_available_unchecked(visual_obj, disk) == visual_obj # None

\* line 75: visual_obj and os.path.exists(visual_obj.file_path)
visual_available(visual_obj, disk) ==
    visual_obj # None /\ visual_obj[1].file_path \in disk.files

\* mutant: an unmapped placeholder is reported like a missing visual
not_mapped_marker_as_missing(generic_figure_placeholder) ==
    "*(Visual for " \o generic_figure_placeholder \o " missing)*"

\* lines 97-100: what replaces a placeholder that figure_id_map does not hold
not_mapped_marker(generic_figure_placeholder) ==
    "*(Visual for " \o generic_figure_placeholder \o " not mapped)*"

\* lines 67-98: the loop over the figure numbers of one narrative, in
\* increasing order from n; gives the rewritten text and the embed lines
RECURSIVE resolve_figures(_, _, _, _, _, _)
resolve_figures(text, embedded, n, draft, generated_visuals, disk) ==
    IF n > MaxFigures THEN [text |-> text, embedded |-> embedded]
    ELSE IF n \notin figure_placeholders_in_narrative(text)
    THEN resolve_figures(text, embedded, n + 1, draft, generated_visuals, disk)
    ELSE
    LET generic_figure_placeholder == Placeholder(n)
        figure_id_map == draft.figure_id_map
        mapped == generic_figure_placeholder \in DOMAIN figure_id_map
        visual_obj == IF mapped
                      THEN visuals_by_id_get(generated_visuals,
                                             figure_id_map[generic_figure_placeholder])
                      ELSE None
    IN  IF mapped /\ visual_available(visual_obj, disk)
        THEN resolve_figures(
                 Replace(text, generic_figure_placeholder, "Figure " \o ToString(n)),
                 embedded \o <<"\n![" \o visual_obj[1].description \o "](file:///"
                                \o abspath(visual_obj[1].file_path) \o ")\n",
                               "**Figure " \o ToString(n) \o ":** "
                                \o visual_obj[1].description \o "\n">>,
                 n + 1, draft, generated_visuals, disk)
        ELSE IF mapped
        THEN resolve_figures(
                 Replace(text, generic_figure_placeholder,
                         "*(Visual for " \o generic_figure_placeholder \o " missing)*"),
                 embedded, n + 1, draft, generated_visuals, disk)
        ELSE resolve_figures(
                 Replace(text, generic_figure_placeholder,
                         not_mapped_marker(generic_figure_placeholder)),
                 embedded, n + 1, draft, generated_visuals, disk)

\* lines 99-105: text.split(":-", 1) into title and body
\* str.split(":-", 1): the index of the first separator of the text, 0 when it
\* has none
first_separator(text) ==
    IF \E k \in DOMAIN text : text[k] = ":-"
    THEN CHOOSE k \in DOMAIN text : text[k] = ":-" /\ \A j \in 1..(k - 1) : text[j] # ":-"
    ELSE 0

title_from_narrative(text) ==
    IF text = << >> THEN <<"Finding">>
    ELSE IF first_separator(text) # 0
    THEN strip(SubSeq(text, 1, first_separator(text) - 1), Whitespace)
    ELSE strip(text, Whitespace)
body_from_narrative(text) ==
    IF first_separator(text) # 0
    THEN strip(SubSeq(text, first_separator(text) + 1, Len(text)), Whitespace)
    ELSE << >>

SectionHeading(i) == "\n### 2." \o ToString(i) \o ". "

\* lines 63-110: the Markdown of narratives i.. of the draft (i is 1-based)
RECURSIVE analysis_sections(_, _, _, _)
analysis_sections(draft, i, generated_visuals, disk) ==
    IF i > Len(draft.analysis_narratives) THEN << >>
    ELSE LET resolved == resolve_figures(draft.analysis_narratives[i], << >>, 1,
                                         draft, generated_visuals, disk)
         IN  <<SectionHeading(i)>> \o title_from_narrative(resolved.text) \o <<"\n">>
             \o body_from_narrative(resolved.text)
             \o resolved.embedded
             \o <<"\n">>
             \o analysis_sections(draft, i + 1, generated_visuals, disk)

\* lines 50-128: the Markdown document, as the sequence of its pieces
full_report_string_md(draft, generated_visuals, disk) ==
    <<"# Data Analysis Report: " \o draft.dataset_title \o "\n\n",
      "**Date Generated:** now\n\n", "---",
      "\n## 1. Introduction\n", draft.introduction_text,
      "\n## 2. Analysis and Findings\n">>
    \o analysis_sections(draft, 1, generated_visuals, disk)
    \o <<"\n## 3. Key Takeaways\n">>
    \o [k \in DOMAIN draft.key_takeaways_bullet_points |->
          "- " \o draft.key_takeaways_bullet_points[k] \o "\n"]
    \o <<"\n## 4. Conclusion\n", draft.conclusion_text>>

\* mutant: the report is handed on although its Markdown file was not written
markdown_write_failure_keeps_report(st, report) ==
    Put(Fail(st, "Error saving final Markdown report"), "final_report", Some(report))

\* lines 131-143: writing the Markdown file raised; the stage returns at once
markdown_write_failure(st, report) == Fail(st, "Error saving final Markdown report")

report_finalization_node(st, disk) ==
    IF ~Has(st, "request_id") \/ ~Has(st, "status")
    THEN Raised(st, 0, 0)                                   \* KeyError
    ELSE IF ~TruthyObj(Get(st, "report_sections_draft", None))
    THEN Returned(Fail(st, "Cannot finalize report: Report sections draft is missing."), 0, 0)
    ELSE
    LET generated_visuals == IF Get(st, "generated_visuals", Some(<< >>)) = None THEN << >>
                             ELSE Get(st, "generated_visuals", Some(<< >>))[1]
        content == full_report_string_md(st["report_sections_draft"][1], generated_visuals, disk)
        report(pdf) == [content |-> content, format_type |-> "markdown", pdf_file_path |-> pdf]
        finalized(s, pdf) == Put(Put(s, "final_report", Some(report(pdf))), "status", "report_finalized")
    IN  IF ~disk.md_write_ok
        THEN Returned(markdown_write_failure(st, report(None)), 0, 0)
        ELSE IF disk.pdf_ok
        THEN Returned(finalized(st, Some("report.pdf")), 0, 0)
        ELSE IF Has(st, "error_message")
        THEN IF st["error_message"] = None
             THEN \* None += str raises TypeError, caught by the outer except
                  Returned(Fail(st, "An unexpected error occurred during report finalization: "
                                    \o NoneTypeError), 0, 0)
             ELSE Returned(finalized(Put(st, "error_message",
                                         Some(st["error_message"][1]
                                              \o "\nError generating PDF: " \o PdfError)),
                                     None), 0, 0)
        ELSE Returned(finalized(Put(st, "error_message", Some("Error generating PDF: " \o PdfError)),
                                None), 0, 0)

----------------------------------------------------------------------------
(* Routing after safety_check: src/src/graph/builder.py *)

\* mutant: the run ends after every safety check
check_safety_status_ends_run(st) == [route |-> END, state |-> st]

\* mutant: the status test inverted
check_safety_status_inverted(st) ==
    LET current_retries == Get(st, "safety_check_retries", 0)
        current_status == Get(st, "status", "")
    IN  IF current_status # "error"
        THEN IF current_retries < safety_max_retries
             THEN [route |-> "report_drafting",
                   state |-> Put(Put(Put(st, "safety_check_retries", current_retries + 1),
                                     "status", "retrying"),
                                 "error_message",
                                 Some("Safety check failed, attempting to redraft the report."))]
             ELSE [route |-> END,
                   state |-> Put(Put(st, "status", "error"),
                                 "error_message",
                                 Some("Report generation failed after " \o ToString(safety_max_retries)
                                      \o " attempts due to safety checks."))]
        ELSE [route |-> "report_finalization", state |-> st]

check_safety_status(st) ==
    LET current_retries == Get(st, "safety_check_retries", 0)
        current_status == Get(st, "status", "")
    IN  IF current_status = "error"
        THEN IF current_retries < safety_max_retries
             THEN [route |-> "report_drafting",
                   state |-> Put(Put(Put(st, "safety_check_retries", current_retries + 1),
                                     "status", "retrying"),
                                 "error_message",
                                 Some("Safety check failed, attempting to redraft the report."))]
             ELSE [route |-> END,
                   state |-> Put(Put(st, "status", "error"),
                                 "error_message",
                                 Some("Report generation failed after " \o ToString(safety_max_retries)
                                      \o " attempts due to safety checks."))]
        ELSE [route |-> "report_finalization", state |-> st]
----------------------------------------------------------------------------
(* The compiled graph: src/src/graph/builder.py, create_graph_workflow.     *)
(* One action runs one node and the edge that leaves it.  A node's returned *)
(* dict is written to the channels.  A routing function is handed a fresh   *)
(* read of the channels: what it returns selects the next node, what it     *)
(* writes into its argument stays in that copy (branch_state).              *)

Nodes == {"data_analysis", "visualization", "insight_generation", "report_drafting",
          "safety_check", "report_finalization"}

Consumed(script, calls) == [i \in 1..calls |-> LlmInvoke(script, i - 1)]

\* the initial state built by the front end (streamlit_app.py), and the
\* initial states of callers that pass only the inputs (tests/test_builder.py)
FrontEndState ==
    [request_id |-> "req", file_path |-> "data.csv", instructions |-> "data analysis report",
     dataframe_profile |-> None, analysis_insights |-> None, generated_visuals |-> None,
     report_sections_draft |-> None, final_report |-> None,
     status |-> "initial", error_message |-> None]

InitialStates ==
    {FrontEndState}
    \cup { [request_id |-> "req", instructions |-> i] : i \in {"", "report"} }
    \cup { [request_id |-> "req", file_path |-> "data.csv", instructions |-> i] : i \in {"", "report"} }

CsvFiles ==
    { [readable |-> FALSE, rows |-> 0, cols |-> 0, numeric_nulls |-> FALSE, dates |-> FALSE] }
    \cup { [readable |-> TRUE, rows |-> r, cols |-> c, numeric_nulls |-> FALSE, dates |-> FALSE]
           : r \in 0..MaxRows, c \in 1..MaxCols }
    \cup { [readable |-> TRUE, rows |-> MinRows, cols |-> MinColumns, numeric_nulls |-> TRUE,
            dates |-> FALSE] }

Init ==
    /\ state \in InitialStates
    /\ env \in [api_key : BOOLEAN, llm_ctor_ok : BOOLEAN, csv : CsvFiles, front_end : BOOLEAN]
    /\ env.front_end <=> state = FrontEndState
    /\ pc = "data_analysis"
    /\ trace = << >>
    /\ first_status = << >>
    /\ llm_log = << >>
    /\ slept = 0
    /\ branch_state = None
    /\ final_state = None
    /\ files = {}

\* The front end around a run: src/src/streamlit_app.py

\* lines 291-298
steps == <<"data_analysis", "visualization", "insight_generation", "report_drafting",
           "safety_check", "report_finalization">>

\* line 354: (i + 1) / len(steps), i the index of the streamed update, as a
\* fraction
progress_value(i) == [numerator |-> i + 1, denominator |-> Len(steps)]

\* progress_bar.progress(value) raises StreamlitAPIException for a value
\* outside [0.0, 1.0]
progress_raises(value) == value.numerator < 0 \/ value.numerator > value.denominator

ErrorMessage == "An error occurred"
InstructionsMessage == "The AI could not process your instructions."
SuccessMessage == "Report Generation Complete!"

\* lines 382-390: the message shown for the last streamed state
final_status_message(current_state) ==
    IF Get(current_state, "status", "") = "error" THEN ErrorMessage
    ELSE IF Get(current_state, "status", "") = "invalid_instructions" THEN InstructionsMessage
    ELSE SuccessMessage

\* a node has run: r is what it returned, route the node its edge selects.
\* The graph streams the update of a node that returned; the front end (lines
\* 351-358) hands the progress value of the update to the progress bar, and
\* when that raises the loop over the stream is left: the update is not kept
\* as final_state and the graph is not advanced further.
NodeStep(node, r, script, route) ==
    /\ state' = IF r.raised THEN state ELSE r.state
    /\ pc' = IF r.raised THEN "exception"
             ELSE IF env.front_end /\ progress_raises(progress_value(Len(trace)))
             THEN "StreamlitAPIException"
             ELSE route
    /\ trace' = Append(trace, node)
    /\ first_status' = IF Has(first_status, node) THEN first_status
                       ELSE Put(first_status, node,
                                IF r.raised THEN "raised" ELSE Get(r.state, "status", ""))
    /\ llm_log' = Consumed(script, r.calls)
    /\ slept' = r.slept
    /\ final_state' = IF r.raised \/ (env.front_end /\ progress_raises(progress_value(Len(trace))))
                       THEN final_state ELSE Some(r.state)
    /\ files' = files \cup r.wrote
    /\ UNCHANGED env

CanStep(node) == pc = node /\ Len(trace) < recursion_limit

DataAnalysis ==
    /\ CanStep("data_analysis")
    /\ \E script \in Scripts(DataAnalysisResponses, DataAnalysisGood) :
         LET r == data_analysis_node(state, env, script)
         IN  /\ NodeStep("data_analysis", r, script, check_analysis_validity(r.state))
             /\ branch_state' = Some(r.state)

\* the visualization node, the suggestion call answering from `responses`,
\* the plotting calls raising or not as `draws` allows
VisualizationDrawing(responses, draws) ==
    /\ CanStep("visualization")
    /\ \E script \in Scripts(responses, VisualizationGood), draw_ok \in draws :
         NodeStep("visualization", visualization_node(state, env, script, draw_ok), script,
                  "insight_generation")
    /\ UNCHANGED branch_state

VisualizationOn(responses) == VisualizationDrawing(responses, BOOLEAN)

Visualization == VisualizationOn(VisualizationResponses)

InsightGeneration ==
    /\ CanStep("insight_generation")
    /\ \E script \in Scripts(InsightResponses, InsightGood) :
         NodeStep("insight_generation", insight_generation_node(state, env, script), script,
                  "report_drafting")
    /\ UNCHANGED branch_state

ReportDrafting ==
    /\ CanStep("report_drafting")
    /\ \E script \in Scripts(DraftingResponses, DraftingGood) :
         NodeStep("report_drafting", report_drafting_node(state, env, script), script,
                  "safety_check")
    /\ UNCHANGED branch_state

SafetyCheck ==
    /\ CanStep("safety_check")
    /\ \E script \in Scripts(SafetyResponses, SafetyGood) :
         LET r == safety_check_node(state, env, script)
             branch == check_safety_status(r.state)
         IN  /\ NodeStep("safety_check", r, script, branch.route)
             /\ branch_state' = Some(branch.state)

ReportFinalization ==
    /\ CanStep("report_finalization")
    /\ \E disk \in Disks :
         NodeStep("report_finalization", report_finalization_node(state, DiskWith(disk, files)),
                  [responses |-> << >>, then |-> NetworkError], END)
    /\ UNCHANGED branch_state

\* the graph gives up after recursion_limit super-steps
GraphRecursionError ==
    /\ pc \in Nodes
    /\ Len(trace) >= recursion_limit
    /\ pc' = "GraphRecursionError"
    /\ UNCHANGED <<state, env, trace, first_status, llm_log, slept, branch_state, final_state,
                   files>>

Next ==
    \/ DataAnalysis
    \/ Visualization
    \/ InsightGeneration
    \/ ReportDrafting
    \/ SafetyCheck
    \/ ReportFinalization
    \/ GraphRecursionError

Spec == Init /\ [][Next]_vars

----------------------------------------------------------------------------
(* The stage functions called directly on a state, as the unit tests call   *)
(* them: one specification per stage, whose initial states are the states   *)
(* the function is called on.                                               *)

\* a key of the dict left unset, set to None, or set to a value
FieldChoices(values) ==
    { [set |-> FALSE, value |-> None], [set |-> TRUE, value |-> None] }
    \cup { [set |-> TRUE, value |-> Some(v)] : v \in values }
WithField(st, key, choice) == IF choice.set THEN Put(st, key, choice.value) ELSE st

SampleCsv == [readable |-> TRUE, rows |-> MinRows, cols |-> MinColumns, numeric_nulls |-> FALSE,
              dates |-> FALSE]
\* the profile of a table, as data_analysis leaves it
ProfileOf(csv) == [profile_data_of(csv) EXCEPT !.key_observations = "The dataset looks clean."]
SampleProfile == ProfileOf(SampleCsv)
\* the profile of a table whose numeric columns hold no value
NullsCsv == [SampleCsv EXCEPT !.numeric_nulls = TRUE]
NullsProfile == ProfileOf(NullsCsv)
SampleVisuals(suggestions) ==
    render_all("req", DataFrame(SampleCsv), suggestions, 1, TRUE).visuals
SampleInsights == <<[insight_id |-> "insight_1"]>>

\* the rest of the run is the same for every stage called directly
CalledDirectly(node) ==
    /\ pc = node
    /\ trace = << >>
    /\ first_status = << >>
    /\ llm_log = << >>
    /\ slept = 0
    /\ branch_state = None
    /\ final_state = None

\* report_drafting_node called on a state with any of its three inputs unset,
\* None, empty or filled
DraftingInputs ==
    { WithField(WithField(WithField(
          [request_id |-> "req", instructions |-> "report", status |-> s],
          "dataframe_profile", p), "analysis_insights", i), "generated_visuals", v)
      : s \in {"insights_generated", "error"},
        p \in FieldChoices({SampleProfile, NullsProfile}),
        i \in FieldChoices({<< >>, SampleInsights}),
        v \in FieldChoices({<< >>, SampleVisuals(<<HistNumeric>>)}) }

InitDrafting ==
    /\ state \in DraftingInputs
    /\ env \in [api_key : BOOLEAN, llm_ctor_ok : BOOLEAN, csv : {SampleCsv}, front_end : {FALSE}]
    /\ files = {}
    /\ CalledDirectly("report_drafting")

SpecDrafting == InitDrafting /\ [][ReportDrafting]_vars

\* visualization_node called on a profiled state, the suggestion call
\* answering with any one instruction (every chart type, one unsupported
\* type, up to three columns, one of them not in the table), with a list of
\* up to three instructions that render or not, or with one instruction of
\* every supported type and number of columns.  Suggestion i is described as
\* "s<i>".  The numeric columns of the table hold values or are all null; its
\* text columns hold dates or not.
ChartTypes == {"bar", "line", "scatter", "histogram", "boxplot", "pie"}
ChartColumnNames == { Column(i).name : i \in 1..MaxCols } \cup {"missing"}
ColumnLists ==
    { << >> }
    \cup { <<a>> : a \in ChartColumnNames }
    \cup { <<a, b>> : a \in ChartColumnNames, b \in ChartColumnNames }
    \cup { <<a, a, a>> : a \in ChartColumnNames }
Tagged(list) == [i \in DOMAIN list |-> [list[i] EXCEPT !.description = "s" \o ToString(i)]]
BarText == Instruction("bar", <<"c2">>)
EverySupportedChart ==
    <<Instruction("bar", <<"c2", "c1">>), Instruction("bar", <<"c2">>),
      Instruction("line", <<"c1", "c1">>), Instruction("scatter", <<"c1", "c1">>),
      Instruction("histogram", <<"c1">>), Instruction("boxplot", <<"c1">>),
      Instruction("boxplot", <<"c1", "c1">>)>>
ChartSuggestionLists ==
    { Tagged(<<Instruction(t, c)>>) : t \in ChartTypes, c \in ColumnLists }
    \cup { Tagged(EverySupportedChart) }
    \cup { Tagged(<<a, b>>) : a \in {HistNumeric, HistText}, b \in {HistNumeric, HistText, BarText} }
    \cup { Tagged(<<a, b, c>>) : a \in {HistNumeric, HistText}, b \in {HistNumeric, HistText},
                                c \in {HistNumeric, HistText} }
ChartResponses ==
    { [kind |-> "text", json |-> "valid", suggestions |-> l] : l \in ChartSuggestionLists }

VisualizationCharts == VisualizationOn(ChartResponses)

InitCharts ==
    /\ env \in [api_key : {TRUE}, llm_ctor_ok : {TRUE}, front_end : {FALSE},
                 csv : { [readable |-> TRUE, rows |-> MinRows, cols |-> c, numeric_nulls |-> n,
                          dates |-> d]
                         : c \in MinColumns..MaxCols, n \in BOOLEAN, d \in BOOLEAN }]
    /\ state = [request_id |-> "req", file_path |-> "data.csv", instructions |-> "report",
                dataframe_profile |-> Some(ProfileOf(env.csv)),
                status |-> "data_profiled"]
    /\ files = {}
    /\ CalledDirectly("visualization")

SpecCharts == InitCharts /\ [][VisualizationCharts]_vars

\* the same calls, when no plotting call and no savefig raises
VisualizationPlotted == VisualizationDrawing(ChartResponses, {TRUE})

SpecPlotted == InitCharts /\ [][VisualizationPlotted]_vars

\* report_finalization_node called on a state with a draft of one narrative of
\* up to three words (a title word, the title separator, a blank, figure
\* placeholders) or of two narratives, a figure map, none to two visuals, and any of their
\* image files on disk; error_message is unset, None as the front end sets
\* it, or the message of an earlier stage
NarrativeWords == {"Sales", ":-", " "} \cup { Placeholder(n) : n \in 1..MaxFigures }
Narratives ==
    { << >> }
    \cup { <<a>> : a \in NarrativeWords }
    \cup { <<a, b>> : a \in NarrativeWords, b \in NarrativeWords }
    \cup { <<a, b, c>> : a \in NarrativeWords, b \in NarrativeWords, c \in NarrativeWords }
FigureMaps ==
    { << >>,
      Placeholder(1) :> "chart_req_1",
      Placeholder(1) :> "chart_req_1" @@ Placeholder(2) :> "chart_req_2",
      Placeholder(1) :> "chart_req_2" @@ Placeholder(2) :> "chart_req_9" }
FinalizationDrafts ==
    { Draft(<<n>>, f) : n \in Narratives, f \in FigureMaps }
    \cup { Draft(<< <<Placeholder(1)>>, <<"Sales", ":-", Placeholder(1), Placeholder(2)>> >>, f)
           : f \in FigureMaps }
TwoVisuals == SampleVisuals(<<HistNumeric, BarText>>)
EarlierMessage == "Accuracy check failed: figures do not match"
FinalizationInputs ==
    { WithField(WithField([request_id |-> "req", instructions |-> "report",
                           status |-> "safety_checked", report_sections_draft |-> Some(d)],
                          "generated_visuals", v),
                "error_message", m)
      : d \in FinalizationDrafts,
        v \in FieldChoices({<< >>, SubSeq(TwoVisuals, 1, 1), TwoVisuals}),
        m \in FieldChoices({EarlierMessage}) }

InitFinalization ==
    /\ state \in FinalizationInputs
    /\ env \in [api_key : {TRUE}, llm_ctor_ok : {TRUE}, csv : {SampleCsv}, front_end : {FALSE}]
    /\ files \in SUBSET { TwoVisuals[k].file_path : k \in DOMAIN TwoVisuals }
    /\ CalledDirectly("report_finalization")

SpecFinalization == InitFinalization /\ [][ReportFinalization]_vars

\* safety_check_node, and the branch that follows it, called on a state with
\* any of its three inputs unset, None, empty or filled, whatever status and
\* error_message the stage before left
SafetyInputs ==
    { WithField(WithField(WithField(
          IF i.set THEN [request_id |-> "req", status |-> s, instructions |-> i.value]
          ELSE [request_id |-> "req", status |-> s],
          "report_sections_draft", d), "dataframe_profile", p), "error_message", m)
      : s \in {"report_drafted", "error"},
        i \in { [set |-> FALSE, value |-> ""], [set |-> TRUE, value |-> ""],
                [set |-> TRUE, value |-> "report"] },
        d \in FieldChoices({DraftA}),
        p \in FieldChoices({SampleProfile}),
        m \in FieldChoices({EarlierMessage}) }

InitSafety ==
    /\ state \in SafetyInputs
    /\ env \in [api_key : BOOLEAN, llm_ctor_ok : BOOLEAN, csv : {SampleCsv}, front_end : {FALSE}]
    /\ files = {}
    /\ CalledDirectly("safety_check")

SpecSafety == InitSafety /\ [][SafetyCheck]_vars

----------------------------------------------------------------------------
(* The upload handler of the front end: src/src/streamlit_app.py.  A file   *)
(* name is the sequence of its characters.                                   *)

\* the characters of the file names of the model: a letter, the underscore,
\* dot, hyphen, a path separator and the space
FilenameChars == {"a", "_", ".", "-", "/", " "}
\* the characters \w matches, among them
WordChars == {"a", "_"}

\* re.sub(r'[^\w\.-]', '_', filename)
re_sub_unsafe(filename) ==
    [k \in DOMAIN filename |->
       IF filename[k] \in WordChars \cup {".", "-"} THEN filename[k] ELSE "_"]

\* str.replace('..', '_'): the occurrences are found from the left and do not
\* overlap
RECURSIVE replace_dot_dot(_)
replace_dot_dot(name) ==
    IF Len(name) < 2 THEN name
    ELSE IF name[1] = "." /\ name[2] = "."
    THEN <<"_">> \o replace_dot_dot(SubSeq(name, 3, Len(name)))
    ELSE <<name[1]>> \o replace_dot_dot(Tail(name))

\* mutant: dot pairs are left in the name
sanitize_filename_keeps_dots(filename) == strip(re_sub_unsafe(filename), {" ", "."})

\* mutant: one character is stripped from each end
sanitize_filename_strips_one(filename) ==
    LET name == re_sub_unsafe(filename)
        left == IF name # << >> /\ Head(name) \in {" ", "."} THEN Tail(name) ELSE name
        both == IF left # << >> /\ left[Len(left)] \in {" ", "."}
                THEN SubSeq(left, 1, Len(left) - 1) ELSE left
    IN  replace_dot_dot(both)

sanitize_filename(filename) ==
    replace_dot_dot(strip(re_sub_unsafe(filename), {" ", "."}))

UploadedNames == UNION { [1..n -> FilenameChars] : n \in 0..MaxNameLen }

\* lines 310-315: the name of the uploaded file becomes the name it is saved
\* under, after the timestamp
Upload ==
    /\ pc = "upload"
    /\ state' = Put(state, "sanitized_filename", sanitize_filename(state["uploaded_file_name"]))
    /\ pc' = "data_analysis"
    /\ UNCHANGED <<env, trace, first_status, llm_log, slept, branch_state, final_state, files>>

InitUpload ==
    /\ state \in { [uploaded_file_name |-> n] : n \in UploadedNames }
    /\ env \in [api_key : {TRUE}, llm_ctor_ok : {TRUE}, csv : {SampleCsv}, front_end : {FALSE}]
    /\ files = {}
    /\ CalledDirectly("upload")

SpecUpload == InitUpload /\ [][Upload]_vars
----------------------------------------------------------------------------
(* Properties *)

Count(seq, x) == Cardinality({ i \in DOMAIN seq : seq[i] = x })
LastNode == IF trace = << >> THEN "" ELSE trace[Len(trace)]
LastResponse == llm_log[Len(llm_log)]
Profile == Get(state, "dataframe_profile", None)
SixStages == <<"data_analysis", "visualization", "insight_generation", "report_drafting",
               "safety_check", "report_finalization">>
SuccessStatus ==
    [data_analysis |-> "data_profiled", visualization |-> "visuals_generated",
     insight_generation |-> "insights_generated", report_drafting |-> "report_drafted",
     safety_check |-> "safety_checked", report_finalization |-> "report_finalized"]

\* C1: once data_analysis has returned, visualization is the next stage iff
\* the profile is present with at least 5 rows and 2 columns; otherwise the
\* run is over, data_analysis is the only stage ever invoked, and status is
\* what data_analysis left.
C1_ThinDataEndsRun ==
    Len(trace) >= 1 =>
        IF Profile # None /\ Profile[1].num_rows >= 5 /\ Profile[1].num_columns >= 2
        THEN /\ Len(trace) = 1 => pc = "visualization"
             /\ Len(trace) >= 2 => trace[2] = "visualization"
        ELSE /\ pc = END
             /\ trace = <<"data_analysis">>
             /\ state["status"] = first_status["data_analysis"]

C1_Witness ==
    /\ pc = END
    /\ trace = <<"data_analysis">>
    /\ Profile # None
    /\ Profile[1].num_rows = 4
    /\ state["status"] = "data_profiled"

\* C2 (as claimed): safety_check_retries starts at 0 and never exceeds 2, and
\* report_drafting and safety_check are each invoked at most 3 times in a run.
C2_AtMostThreeDrafts ==
    /\ Len(trace) = 0 => Get(state, "safety_check_retries", 0) = 0
    /\ Get(state, "safety_check_retries", 0) <= 2
    /\ Count(trace, "report_drafting") <= 3
    /\ Count(trace, "safety_check") <= 3

\* C3 (as claimed): when safety_check leaves status "error" with the retry
\* budget used up (two redrafts made), the run is over and the caller's final
\* state has status "error" and the message citing the retry count.
C3_ExhaustedBudgetEndsRun ==
    ( /\ LastNode = "safety_check"
      /\ state["status"] = "error"
      /\ \/ Get(state, "safety_check_retries", 0) = 2
         \/ Count(trace, "report_drafting") = 3 )
    => /\ pc = END
       /\ final_state[1]["status"] = "error"
       /\ final_state[1]["error_message"]
            = Some("Report generation failed after 2 attempts due to safety checks.")

\* C4 (as claimed): when safety_check leaves status "error" and the run loops
\* back to report_drafting, the state report_drafting and the next safety
\* branch see has the counter increased by one (it counts the failed checks),
\* status "retrying" and the descriptive message.
C4_RetryIsRecorded ==
    (LastNode = "safety_check" /\ pc = "report_drafting")
    => /\ Get(state, "safety_check_retries", 0) = Count(trace, "safety_check")
       /\ state["status"] = "retrying"
       /\ state["error_message"] = Some("Safety check failed, attempting to redraft the report.")

\* C5 (as claimed): every run reaches the end state; none is cut off by the
\* graph's recursion limit, whatever the stages return.
C5_RunReachesEnd == pc # "GraphRecursionError"

\* C6 (as claimed): report_finalization is selected only when the safety_check
\* just before it left status "safety_checked".
C6_FinalizeOnlyAudited ==
    pc = "report_finalization" => state["status"] = "safety_checked"

\* C7: if the first invocation of every stage returned its success status when
\* the run is over, then the six stages ran once each in order and the final
\* state carries profile, visuals, insights, draft and final report with
\* status "report_finalized".
C7_HappyPath ==
    ( /\ pc = END
      /\ \A n \in Nodes : Has(first_status, n) /\ first_status[n] = SuccessStatus[n] )
    => /\ trace = SixStages
       /\ state["status"] = "report_finalized"
       /\ final_state = Some(state)
       /\ TruthyObj(Get(state, "dataframe_profile", None))
       /\ TruthyList(Get(state, "generated_visuals", None))
       /\ TruthyList(Get(state, "analysis_insights", None))
       /\ TruthyObj(Get(state, "report_sections_draft", None))
       /\ TruthyObj(Get(state, "final_report", None))

C7_Witness ==
    /\ pc = END
    /\ trace = SixStages
    /\ first_status["safety_check"] = "safety_checked"
    /\ state["status"] = "report_finalized"
    /\ state["final_report"][1].pdf_file_path # None
Declined(r) ==
    /\ r.kind = "text"
    /\ \/ r.has_phrase
       \/ r.json = "valid" /\ Strip(r.key_observations) = DeclineSentence

\* C8 (as claimed): whenever the LLM response to data_analysis contains the
\* decline phrase, or its parsed key_observations is the decline sentence after
\* trimming, the stage ends with status "invalid_instructions" and the exact
\* decline sentence as error_message.
C8_DeclineIsInvalidInstructions ==
    (LastNode = "data_analysis" /\ llm_log # << >> /\ Declined(LastResponse))
    => /\ state["status"] = "invalid_instructions"
       /\ state["error_message"] = Some(DeclineSentence)

\* C8 (amended): a response containing the decline phrase as a raw substring
\* ends the stage with status "error" and the message "User instructions were
\* not related to data report generation."; a response without the raw phrase
\* whose parsed key_observations is the decline sentence after trimming ends it
\* with status "invalid_instructions" and key_observations, as returned, as
\* error_message.
C8_DeclineStatuses ==
    (LastNode = "data_analysis" /\ llm_log # << >> /\ Declined(LastResponse))
    => IF LastResponse.has_phrase
       THEN /\ state["status"] = "error"
            /\ state["error_message"]
                 = Some("User instructions were not related to data report generation.")
       ELSE /\ state["status"] = "invalid_instructions"
            /\ state["error_message"] = Some(LastResponse.key_observations)
            /\ Strip(state["error_message"][1]) = DeclineSentence

C8_Witness ==
    /\ LastNode = "data_analysis"
    /\ llm_log # << >>
    /\ LastResponse.kind = "text"
    /\ LastResponse.has_phrase
    /\ LastResponse.json = "invalid"
    /\ state["status"] = "error"

\* C9: whenever the profiling LLM declined, dataframe_profile is not set and
\* the run is over with data_analysis the only stage invoked.
C9_DeclineEndsRun ==
    (LastNode = "data_analysis" /\ llm_log # << >> /\ Declined(LastResponse))
    => /\ Profile = None
       /\ pc = END
       /\ trace = <<"data_analysis">>

C9_Witness ==
    /\ trace = <<"data_analysis">>
    /\ pc = END
    /\ state["status"] = "invalid_instructions"
    /\ env.csv.rows >= 5
    /\ env.csv.cols >= 2
    /\ Profile = None

LlmStages == Nodes \ {"report_finalization"}
GoodResponse ==
    [data_analysis |-> DataAnalysisGood, visualization |-> VisualizationGood,
     insight_generation |-> InsightGood, report_drafting |-> DraftingGood,
     safety_check |-> SafetyGood]

\* C10: one invocation of an LLM-calling stage makes at most 3 LLM calls; every
\* call but the last failed with a network error; two network failures followed
\* by a well-formed answer give the stage's success status; three network
\* failures give status "error" with the failed-after-3-attempts message.
C10_AtMostThreeLlmCalls ==
    LastNode \in LlmStages =>
        /\ Len(llm_log) <= 3
        /\ \A i \in 1..(Len(llm_log) - 1) : llm_log[i].kind = "network"
        /\ ( /\ Len(llm_log) = 3
             /\ llm_log[3].kind = "text"
             /\ llm_log[3] = GoodResponse[LastNode] )
           => state["status"] = SuccessStatus[LastNode]
        /\ (Len(llm_log) = 3 /\ llm_log[3].kind = "network")
           => /\ state["status"] = "error"
              /\ state["error_message"]
                   = Some("Failed to get a response from the LLM after 3 attempts: " \o llm_log[3].e)

C10_Witness ==
    /\ LastNode = "safety_check"
    /\ llm_log = <<NetworkError, NetworkError, SafetyGood>>
    /\ slept = 6
    /\ state["status"] = "safety_checked"

\* the field a stage stores its result in
OutputField ==
    [data_analysis |-> "dataframe_profile", visualization |-> "generated_visuals",
     insight_generation |-> "analysis_insights", report_drafting |-> "report_sections_draft"]

\* a response that is not a network failure and cannot be used: an exception
\* of the call, invalid JSON, or JSON of the wrong shape
Malformed(r) == r.kind = "exception" \/ (r.kind = "text" /\ r.json # "valid")

\* seconds slept before the 2nd and before the 3rd call
SleptBeforeCall(calls) == IF calls <= 1 THEN 0 ELSE IF calls = 2 THEN 2 ELSE 2 + 4

\* C11 (as claimed): in every invocation of an LLM-calling stage, a response
\* that is an exception other than a network failure, invalid JSON or
\* schema-invalid JSON is the last call of the invocation: the stage returns
\* status "error", has slept only before that call, and leaves its output field
\* as it found it.
C11_MalformedOutputEndsStage ==
    [][ (trace' # trace /\ LastNode' \in LlmStages)
        => \A i \in DOMAIN llm_log' :
             Malformed(llm_log'[i])
             => /\ i = Len(llm_log')
                /\ state'["status"] = "error"
                /\ slept' = SleptBeforeCall(i)
                /\ LastNode' \in DOMAIN OutputField
                   => /\ Has(state', OutputField[LastNode']) = Has(state, OutputField[LastNode'])
                      /\ Get(state', OutputField[LastNode'], None)
                           = Get(state, OutputField[LastNode'], None) ]_vars

\* C12 (as claimed): once report_drafting has ended in "error" because the LLM
\* output was malformed, and safety_check has run on that state,
\* report_drafting is not the stage selected next.
C12_MalformedDraftNotRedrafted ==
    ( /\ LastNode = "safety_check"
      /\ state["status"] = "error"
      /\ state["error_message"]
           = Some("LLM output for report draft was invalid JSON or schema") )
    => pc # "report_drafting"

\* C13: a stage invocation that made k LLM calls has slept 0 s for k <= 1, 2 s
\* for k = 2 and 2 + 4 s for k = 3; nothing is slept after the last call, and
\* never more than 6 s in total.
C13_BackoffDelays ==
    Len(trace) >= 1 =>
        /\ slept = SleptBeforeCall(Len(llm_log))
        /\ slept <= 6

C13_Witness ==
    /\ LastNode = "report_drafting"
    /\ llm_log = <<NetworkError, NetworkError, NetworkError>>
    /\ slept = 6
    /\ state["status"] = "error"

\* C14: when the insight call returns well-formed output with an empty insight
\* list, the stage ends with status "error" and the message saying no insights
\* were generated, and analysis_insights stays unset.
C14_EmptyInsightsRejected ==
    ( /\ LastNode = "insight_generation"
      /\ llm_log # << >>
      /\ LastResponse.kind = "text"
      /\ LastResponse.json = "valid"
      /\ LastResponse.insights = << >> )
    => /\ state["status"] = "error"
       /\ state["error_message"]
            = Some("An unexpected failure occurred after all LLM retries or no insights were generated.")
       /\ Get(state, "analysis_insights", None) = None

C14_Witness ==
    /\ LastNode = "insight_generation"
    /\ llm_log = <<[kind |-> "text", json |-> "valid", insights |-> << >>]>>
    /\ state["status"] = "error"
    /\ pc = "report_drafting"

Unset(st, key) == Get(st, key, None) = None

\* C15 (as claimed): report_drafting_node returns the "Missing data profile,
\* insights, or visuals" error exactly when dataframe_profile,
\* analysis_insights or generated_visuals is unset or None; an empty list is a
\* value like any other.
C15_EmptyListsArePresent ==
    LastNode = "report_drafting" =>
        ( state["error_message"]
            = Some("Cannot draft report: Missing data profile, insights, or visuals.")
          <=> \/ Unset(state, "dataframe_profile")
              \/ Unset(state, "analysis_insights")
              \/ Unset(state, "generated_visuals") )

SuggestionsAnswered ==
    /\ LastNode = "visualization"
    /\ llm_log # << >>
    /\ LastResponse.kind = "text"
    /\ LastResponse.json = "valid"
Visuals == Get(state, "generated_visuals", None)

\* C16: once the suggestion call has succeeded, the visualization stage
\* returns (no exception) with status "visuals_generated" and
\* generated_visuals holding one visual per chart file written, each made from
\* one of the suggestions, in the order of the suggestions: the empty list
\* when no chart was written.
C16_FailedRendersDropped ==
    SuggestionsAnswered =>
        /\ pc # "exception"
        /\ state["status"] = "visuals_generated"
        /\ Visuals # None
        /\ { Visuals[1][k].file_path : k \in DOMAIN Visuals[1] } = files
        /\ Len(Visuals[1]) = Cardinality(files)
        /\ files = {} => Visuals[1] = << >>
        /\ \A k \in DOMAIN Visuals[1] :
             \E i \in DOMAIN LastResponse.suggestions :
               /\ LastResponse.suggestions[i].description = Visuals[1][k].description
               /\ LastResponse.suggestions[i].type = Visuals[1][k].type

C16_Witness ==
    /\ SuggestionsAnswered
    /\ LastResponse.suggestions = Tagged(<<HistText, HistNumeric, HistText>>)
    /\ Len(Visuals[1]) = 1
    /\ Visuals[1][1].description = "s2"
    /\ state["status"] = "visuals_generated"

\* the position of the suggestion a visual was made from
SuggestionOf(visual) ==
    CHOOSE i \in DOMAIN LastResponse.suggestions :
      LastResponse.suggestions[i].description = visual.description

\* C17: the visual made from the suggestion at 1-based position p (0-based
\* index p - 1) has visual_id "chart_<request_id>_<p>"; the ids of
\* generated_visuals are pairwise distinct and in increasing position order,
\* whichever suggestions failed to render.
C17_PositionalVisualIds ==
    SuggestionsAnswered =>
        /\ \A k \in DOMAIN Visuals[1] :
             Visuals[1][k].visual_id
               = "chart_" \o state["request_id"] \o "_" \o ToString(SuggestionOf(Visuals[1][k]))
        /\ \A k \in DOMAIN Visuals[1], j \in DOMAIN Visuals[1] :
             k < j => /\ Visuals[1][k].visual_id # Visuals[1][j].visual_id
                      /\ SuggestionOf(Visuals[1][k]) < SuggestionOf(Visuals[1][j])

C17_Witness ==
    /\ SuggestionsAnswered
    /\ LastResponse.suggestions = Tagged(<<HistNumeric, HistText, HistNumeric>>)
    /\ Len(Visuals[1]) = 2
    /\ Visuals[1][1].visual_id = "chart_req_1"
    /\ Visuals[1][2].visual_id = "chart_req_3"

\* the instructions the claim says generate_chart turns down
TurnedDown(instruction, csv) ==
    \/ instruction.columns = << >>
    \/ \E k \in DOMAIN instruction.columns :
         \A c \in 1..csv.cols : Column(c).name # instruction.columns[k]
    \/ /\ instruction.type \in {"histogram", "boxplot", "line", "scatter"}
       /\ \E k \in DOMAIN instruction.columns :
            \E c \in 1..csv.cols : Column(c).name = instruction.columns[k] /\ ~Column(c).numeric

\* C18: for an instruction that names no column, names a column that is not
\* in the table, or asks for a histogram, boxplot, line or scatter chart of a
\* non-numeric column, generate_chart makes no chart: no exception leaves the
\* stage, no visual is made from the instruction, and its image file is not
\* written.
C18_RejectedInstructions ==
    SuggestionsAnswered =>
        \A i \in DOMAIN LastResponse.suggestions :
          TurnedDown(LastResponse.suggestions[i], env.csv)
          => /\ pc # "exception"
             /\ \A k \in DOMAIN Visuals[1] :
                  Visuals[1][k].description # LastResponse.suggestions[i].description
             /\ ("local_app_data/charts/chart_" \o state["request_id"] \o "_" \o ToString(i)
                   \o ".png") \notin files

C18_Witness ==
    /\ SuggestionsAnswered
    /\ LastResponse.suggestions = Tagged(<<Instruction("scatter", <<"c1", "c2">>)>>)
    /\ Visuals = Some(<< >>)
    /\ files = {}
    /\ state["status"] = "visuals_generated"

Finalized == LastNode = "report_finalization" /\ state["status"] = "report_finalized"
DraftNarratives == state["report_sections_draft"][1].analysis_narratives
FigureMap == state["report_sections_draft"][1].figure_id_map
Content == state["final_report"][1].content
VisualList == IF Visuals = None THEN << >> ELSE Visuals[1]

FirstIndex(seq, tok) == CHOOSE k \in DOMAIN seq : seq[k] = tok /\ \A j \in 1..(k - 1) : seq[j] # tok

\* the part of the document written for narrative i: from its heading to the
\* next heading
Block(i) ==
    LET start == FirstIndex(Content, "\n### 2." \o ToString(i) \o ". ")
        stop == IF i < Len(DraftNarratives)
                THEN FirstIndex(Content, "\n### 2." \o ToString(i + 1) \o ". ")
                ELSE FirstIndex(Content, "\n## 3. Key Takeaways\n")
    IN  SubSeq(Content, start, stop - 1)

Mapped(n) == Placeholder(n) \in DOMAIN FigureMap
\* the visuals the placeholder of figure n is mapped to
MappedVisuals(n) ==
    { VisualList[k] : k \in { j \in DOMAIN VisualList :
                                VisualList[j].visual_id = FigureMap[Placeholder(n)] } }
Shown(n) == Mapped(n) /\ \E v \in MappedVisuals(n) : v.file_path \in files
EmbedOf(v) == "\n![" \o v.description \o "](file:////app/" \o v.file_path \o ")\n"
CaptionOf(n, v) == "**Figure " \o ToString(n) \o ":** " \o v.description \o "\n"

\* C19: in a finalized report, for every narrative that contains the
\* placeholder of a figure N that is mapped to a generated visual whose image
\* file exists: the narrative's part of the document does not contain the
\* placeholder, contains "Figure N" once per occurrence of the placeholder,
\* and after the last of them holds the image embed of the visual, followed by
\* its caption line.
C19_FigureResolved ==
    Finalized =>
        \A i \in DOMAIN DraftNarratives, n \in 1..MaxFigures :
          (Placeholder(n) \in Range(DraftNarratives[i]) /\ Shown(n))
          => /\ Placeholder(n) \notin Range(Block(i))
             /\ Count(Block(i), "Figure " \o ToString(n))
                  = Count(DraftNarratives[i], Placeholder(n))
             /\ \A v \in MappedVisuals(n) :
                  \E e \in DOMAIN Block(i) :
                    /\ Block(i)[e] = EmbedOf(v)
                    /\ e < Len(Block(i))
                    /\ Block(i)[e + 1] = CaptionOf(n, v)
                    /\ \A k \in DOMAIN Block(i) :
                         Block(i)[k] = "Figure " \o ToString(n) => k < e

C19_Witness ==
    /\ Finalized
    /\ DraftNarratives = << <<"Sales", ":-", Placeholder(1)>> >>
    /\ Shown(1)
    /\ Block(1) = <<"\n### 2.1. ", "Sales", "\n", "Figure 1",
                    "\n![histogram chart](file:////app/local_app_data/charts/chart_req_1.png)\n",
                    "**Figure 1:** histogram chart\n", "\n">>

\* C20: in a finalized report, for every narrative that contains the
\* placeholder of a figure N that is mapped, the mapped visual not generated
\* or its image file not on disk: every occurrence of the placeholder is
\* replaced by the marker "*(Visual for [FIGURE N] missing)*", and the
\* narrative's part of the document holds no image embed and no caption for
\* it.  The stage ends with status "report_finalized" unless writing the
\* Markdown file or the PDF fails.
C20_MissingVisualMarked ==
    LastNode = "report_finalization" =>
        /\ state["status"] = "error"
           => state["error_message"] \in
                { Some("Error saving final Markdown report"),
                  Some("An unexpected error occurred during report finalization: "
                       \o "unsupported operand type(s) for +=: 'NoneType' and 'str'") }
        /\ state["status"] # "error" => state["status"] = "report_finalized"
        /\ Finalized =>
             \A i \in DOMAIN DraftNarratives, n \in 1..MaxFigures :
               (Placeholder(n) \in Range(DraftNarratives[i]) /\ Mapped(n) /\ ~Shown(n))
               => /\ Placeholder(n) \notin Range(Block(i))
                  /\ Count(Block(i), "*(Visual for [FIGURE " \o ToString(n) \o "] missing)*")
                       = Count(DraftNarratives[i], Placeholder(n))
                  /\ \A v \in MappedVisuals(n) :
                       /\ EmbedOf(v) \notin Range(Block(i))
                       /\ CaptionOf(n, v) \notin Range(Block(i))
                  /\ Cardinality({ k \in DOMAIN Block(i) :
                                     \E v \in Range(VisualList) : Block(i)[k] = EmbedOf(v) })
                       = Cardinality({ m \in 1..MaxFigures :
                                         Placeholder(m) \in Range(DraftNarratives[i]) /\ Shown(m) })

C20_Witness ==
    /\ Finalized
    /\ DraftNarratives = << <<"Sales", ":-", Placeholder(1)>> >>
    /\ Mapped(1)
    /\ MappedVisuals(1) # {}
    /\ files = {}
    /\ Block(1) = <<"\n### 2.1. ", "Sales", "\n", "*(Visual for [FIGURE 1] missing)*", "\n">>

\* the image embeds in the part of the document written for narrative i
EmbedsIn(i) ==
    { k \in DOMAIN Block(i) : \E v \in Range(VisualList) : Block(i)[k] = EmbedOf(v) }

\* C21: in a finalized report, for every narrative that contains the
\* placeholder of a figure N that figure_id_map does not hold: every
\* occurrence of the placeholder is replaced by the marker
\* "*(Visual for [FIGURE N] not mapped)*", and the narrative's part of the
\* document holds no caption for figure N and no image embed but those of the
\* figures that are shown.  The stage ends with status "report_finalized"
\* unless writing the Markdown file fails or the handler of a PDF failure
\* fails.
C21_UnmappedPlaceholderMarked ==
    LastNode = "report_finalization" =>
        /\ Finalized =>
             \A i \in DOMAIN DraftNarratives, n \in 1..MaxFigures :
               (Placeholder(n) \in Range(DraftNarratives[i]) /\ ~Mapped(n))
               => /\ Placeholder(n) \notin Range(Block(i))
                  /\ Count(Block(i), "*(Visual for [FIGURE " \o ToString(n) \o "] not mapped)*")
                       = Count(DraftNarratives[i], Placeholder(n))
                  /\ \A v \in Range(VisualList) : CaptionOf(n, v) \notin Range(Block(i))
                  /\ Cardinality(EmbedsIn(i))
                       = Cardinality({ m \in 1..MaxFigures :
                                         Placeholder(m) \in Range(DraftNarratives[i]) /\ Shown(m) })
        /\ ( /\ \E i \in DOMAIN DraftNarratives, n \in 1..MaxFigures :
                  Placeholder(n) \in Range(DraftNarratives[i]) /\ ~Mapped(n)
             /\ ~Finalized )
           => /\ state["status"] = "error"
              /\ state["error_message"] \in
                   { Some("Error saving final Markdown report"),
                     Some("An unexpected error occurred during report finalization: "
                          \o "unsupported operand type(s) for +=: 'NoneType' and 'str'") }

C21_Witness ==
    /\ Finalized
    /\ DraftNarratives = << <<"Sales", ":-", Placeholder(1)>> >>
    /\ FigureMap = << >>
    /\ VisualList # << >>
    /\ files # {}
    /\ Block(1) = <<"\n### 2.1. ", "Sales", "\n", "*(Visual for [FIGURE 1] not mapped)*", "\n">>

\* the stage ran on a draft, wrote the Markdown file and made no PDF
PdfFailed ==
    /\ LastNode = "report_finalization"
    /\ Get(state, "report_sections_draft", None) # None
    /\ Get(state, "error_message", None) # Some("Error saving final Markdown report")
    /\ \/ Get(state, "final_report", None) = None
       \/ state["final_report"][1].pdf_file_path = None

\* C22 (as claimed): whenever PDF rendering failed, whatever error_message was
\* on entry (unset, None, or a message), the stage ends with status
\* "report_finalized", final_report holding the whole Markdown document and no
\* pdf_file_path, and error_message ending with the PDF failure detail.
C22_PdfFailureNotFatal ==
    PdfFailed =>
        /\ state["status"] = "report_finalized"
        /\ Get(state, "final_report", None) # None
        /\ state["final_report"][1].pdf_file_path = None
        /\ state["final_report"][1].format_type = "markdown"
        /\ Count(state["final_report"][1].content, "\n## 1. Introduction\n") = 1
        /\ Count(state["final_report"][1].content, "\n## 4. Conclusion\n") = 1
        /\ state["error_message"] \in
             { Some(prefix \o "Error generating PDF: PDF generation failed")
               : prefix \in {"", "Accuracy check failed: figures do not match" \o "\n"} }

\* C23: when safety_check_node runs on a state whose report_sections_draft,
\* dataframe_profile or instructions is unset or None, it makes no LLM call,
\* sleeps nothing and returns the state as it found it: every field, status
\* and error_message included.
C23_MissingInputIsNoOp ==
    [][ ( /\ trace' # trace
          /\ LastNode' = "safety_check"
          /\ \/ Unset(state, "report_sections_draft")
             \/ Unset(state, "dataframe_profile")
             \/ ~Has(state, "instructions") )
        => /\ state' = state
           /\ llm_log' = << >>
           /\ slept' = 0
           /\ pc' # "exception" ]_vars

C23_Witness ==
    /\ LastNode = "safety_check"
    /\ Has(state, "report_sections_draft")
    /\ state["report_sections_draft"] # None
    /\ Has(state, "instructions")
    /\ state["instructions"] = "report"
    /\ Has(state, "dataframe_profile")
    /\ state["dataframe_profile"] = None
    /\ state["status"] = "error"
    /\ Has(state, "error_message")
    /\ state["error_message"] = Some("Accuracy check failed: figures do not match")
    /\ env.api_key
    /\ env.llm_ctor_ok
    /\ llm_log = << >>

\* the safety call returned a verdict that parsed
VerdictParsed == LastResponse.kind = "text" /\ LastResponse.json = "valid"
\* the fields of a verdict that is a SafetyCheckResult
IsSafe == LastResponse.result["is_safe"].bool
IsAccurate == LastResponse.result["is_accurate"].bool
VerdictReasoning == LastResponse.result["reasoning"].str

\* C24: when the safety call returns a verdict that parses, the stage sets
\* status "safety_checked" iff is_safe and is_accurate are both true; with
\* is_safe false it ends in "error" with "Safety check failed: <reasoning>",
\* whatever is_accurate is; with is_safe true and is_accurate false it ends in
\* "error" with "Accuracy check failed: <reasoning>"; on a pass error_message
\* is what it was before the stage ran.
C24_VerdictDecidesStatus ==
    [][ ( /\ trace' # trace
          /\ LastNode' = "safety_check"
          /\ llm_log' # << >>
          /\ VerdictParsed' )
        => /\ state'["status"] = "safety_checked"
                <=> (IsSafe' /\ IsAccurate')
           /\ ~IsSafe'
                => /\ state'["status"] = "error"
                   /\ state'["error_message"]
                        = Some("Safety check failed: " \o VerdictReasoning')
           /\ (IsSafe' /\ ~IsAccurate')
                => /\ state'["status"] = "error"
                   /\ state'["error_message"]
                        = Some("Accuracy check failed: " \o VerdictReasoning')
           /\ (IsSafe' /\ IsAccurate')
                => /\ Has(state', "error_message") = Has(state, "error_message")
                   /\ Get(state', "error_message", None) = Get(state, "error_message", None) ]_vars

C24_Witness ==
    /\ LastNode = "safety_check"
    /\ llm_log # << >>
    /\ VerdictParsed
    /\ ~IsSafe
    /\ ~IsAccurate
    /\ state["status"] = "error"
    /\ state["error_message"] = Some("Safety check failed: harmful content")
    /\ pc = "report_drafting"

\* C25: data_analysis_node ends with status "error", no LLM call made and
\* dataframe_profile unset when file_path is absent, when the API key is
\* unset, when the CSV cannot be loaded, or when the table has no rows.  The
\* checks are made in that order: an absent file_path is what is reported even
\* when the API key is missing too, and a missing API key even when the CSV
\* cannot be loaded.
C25_InputChecksInOrder ==
    LastNode = "data_analysis" =>
        LET no_path == Get(state, "file_path", "") = ""
            no_csv == ~env.csv.readable \/ env.csv.rows = 0
        IN  /\ (no_path \/ ~env.api_key \/ no_csv)
               => /\ state["status"] = "error"
                  /\ llm_log = << >>
                  /\ Get(state, "dataframe_profile", None) = None
            /\ no_path
               => state["error_message"]
                    = Some("Cannot perform data analysis: A file path was not provided.")
            /\ (~no_path /\ ~env.api_key)
               => state["error_message"]
                    = Some("API key for Gemini not found. Please set GEMINI_API_KEY in your .env file.")
            /\ (~no_path /\ env.api_key /\ env.llm_ctor_ok /\ ~env.csv.readable)
               => state["error_message"] = Some("Failed to load or process CSV file")
            /\ (~no_path /\ env.api_key /\ env.llm_ctor_ok /\ env.csv.readable /\ env.csv.rows = 0)
               => state["error_message"]
                    = Some("Failed to load or process CSV file: Uploaded CSV is empty.")

C25_Witness ==
    /\ LastNode = "data_analysis"
    /\ ~Has(state, "file_path")
    /\ ~env.api_key
    /\ ~env.csv.readable
    /\ state["status"] = "error"
    /\ state["error_message"] = Some("Cannot perform data analysis: A file path was not provided.")
    /\ llm_log = << >>
    /\ pc = END

\* C26: whatever the name of the uploaded file, the sanitized name holds no
\* two dots in a row and no character but word characters (letters, digits,
\* underscore), dot and hyphen.
C26_SanitizedNameIsSafe ==
    Has(state, "sanitized_filename") =>
        LET name == state["sanitized_filename"]
        IN  /\ \A k \in 1..(Len(name) - 1) : ~(name[k] = "." /\ name[k + 1] = ".")
            /\ \A k \in DOMAIN name : name[k] \in {"a", "_", ".", "-"}

C26_Witness ==
    /\ Has(state, "sanitized_filename")
    /\ state["uploaded_file_name"] = <<".", ".", "/", "a">>
    /\ state["sanitized_filename"] = <<"_", "a">>

\* a state that failed says why
Explained(st) ==
    Get(st, "status", "") \in {"error", "invalid_instructions"}
    => /\ Has(st, "error_message")
       /\ st["error_message"] # None
       /\ st["error_message"][1] # ""

\* C27: in every state of a workflow run, in the state the caller is handed
\* and in the state the routing function leaves, a status of "error" or
\* "invalid_instructions" comes with an error_message that is set and not
\* empty.
C27_FailureIsExplained ==
    /\ Explained(state)
    /\ final_state # None => Explained(final_state[1])
    /\ branch_state # None => Explained(branch_state[1])

C27_Witness ==
    /\ LastNode = "data_analysis"
    /\ state["status"] = "invalid_instructions"
    /\ state["error_message"] = Some(" " \o DeclineSentence \o " ")
    /\ final_state = Some(state)

\* the safety check just made audited the draft and turned it down
DraftRejected ==
    /\ LastNode = "safety_check"
    /\ llm_log # << >>
    /\ VerdictParsed
    /\ ~(IsSafe /\ IsAccurate)

\* C28 (as claimed): the branch after safety_check selects report_drafting
\* only when the safety check audited the draft and the verdict was
\* is_safe = false or is_accurate = false.
C28_RedraftOnlyAfterRejection ==
    (LastNode = "safety_check" /\ pc = "report_drafting") => DraftRejected

\* C29 (as claimed): the redraft that follows a rejected draft resets
\* report_sections_draft: when report_drafting returns, the field holds the
\* draft this invocation made, or nothing if the invocation failed.
C29_RedraftResetsDraft ==
    [][ ( /\ DraftRejected
          /\ pc = "report_drafting"
          /\ trace' = Append(trace, "report_drafting") )
        => \/ state'["status"] = "report_drafted"
           \/ Get(state', "report_sections_draft", None) = None ]_vars

\* the combinations of chart type and number of columns the claim lists
Supported(type, n) ==
    \/ type = "bar" /\ n \in {1, 2}
    \/ type \in {"line", "scatter"} /\ n = 2
    \/ type = "histogram" /\ n = 1
    \/ type = "boxplot" /\ n \in {1, 2}

\* the plotting call the claim gives for a combination
PlotCall(type, n) ==
    CASE type = "bar" /\ n = 2 -> "sns.barplot"
      [] type = "bar" -> "sns.countplot"
      [] type = "line" -> "sns.lineplot"
      [] type = "scatter" -> "sns.scatterplot"
      [] type = "histogram" -> "sns.histplot"
      [] OTHER -> "sns.boxplot"

\* a non-empty chart code that names the call: the call applied to the columns
\* of the instruction, after a sort of the table for a line
NamesCall(code, call, cols) ==
    \E a \in Range(cols), b \in Range(cols) :
      code \in { before \o call \o "(" \o args \o ")"
                 : before \in {"", "df_sorted = df.sort_values(by='" \o a \o "')\n"},
                   args \in { "x='" \o a \o "', y='" \o b \o "', data=df, ax=ax",
                              "x='" \o a \o "', y='" \o b \o "', data=df_sorted, ax=ax",
                              "x='" \o a \o "', data=df, ax=ax",
                              "df['" \o a \o "'], kde=True, ax=ax",
                              "y=df['" \o a \o "'], ax=ax" } }

\* the visuals made from suggestion i
VisualsOf(i) ==
    { k \in DOMAIN Visuals[1] : Visuals[1][k].description = LastResponse.suggestions[i].description }

\* C30: a visual is made from an instruction only for bar with 1 or 2
\* columns, line with 2 columns and rows left once the null rows are dropped,
\* scatter with 2 columns, histogram with 1 column and boxplot with 1 or 2
\* columns; every other type or number of columns is rejected.  The chart code
\* of a visual is not empty and names the plotting call of its combination
\* (barplot for bar with 2 columns, countplot for bar with 1), and a chart
\* file is written exactly for the instructions a visual is made from.
C30_ChartDispatch ==
    SuggestionsAnswered =>
        \A i \in DOMAIN LastResponse.suggestions :
          LET instruction == LastResponse.suggestions[i]
              n == Len(instruction.columns)
          IN  /\ VisualsOf(i) # {}
                 => /\ Supported(instruction.type, n)
                    /\ instruction.type = "line" => ~env.csv.numeric_nulls
              /\ ~Supported(instruction.type, n) => VisualsOf(i) = {}
              /\ \A k \in VisualsOf(i) :
                   /\ Visuals[1][k].chart_code # ""
                   /\ NamesCall(Visuals[1][k].chart_code, PlotCall(instruction.type, n),
                                instruction.columns)
              /\ ("local_app_data/charts/chart_" \o state["request_id"] \o "_" \o ToString(i)
                    \o ".png") \in files
                 <=> VisualsOf(i) # {}

C30_Witness ==
    /\ SuggestionsAnswered
    /\ Len(LastResponse.suggestions) = 7
    /\ Len(Visuals[1]) = 7
    /\ Cardinality(files) = 7
    /\ Visuals[1][1].chart_code = "sns.barplot(x='c2', y='c1', data=df, ax=ax)"
    /\ Visuals[1][2].chart_code = "sns.countplot(x='c2', data=df, ax=ax)"
    /\ Visuals[1][3].chart_code
         = "df_sorted = df.sort_values(by='c1')\nsns.lineplot(x='c1', y='c1', data=df_sorted, ax=ax)"
    /\ Visuals[1][4].chart_code = "sns.scatterplot(x='c1', y='c1', data=df, ax=ax)"
    /\ Visuals[1][5].chart_code = "sns.histplot(df['c1'], kde=True, ax=ax)"
    /\ Visuals[1][6].chart_code = "sns.boxplot(y=df['c1'], ax=ax)"
    /\ Visuals[1][7].chart_code = "sns.boxplot(x='c1', y='c1', data=df, ax=ax)"

\* the column of the table of that name is of that kind
IsColumn(name, numeric) ==
    \E c \in 1..env.csv.cols : Column(c).name = name /\ Column(c).numeric = numeric

\* C31 (as claimed): when no plotting call raises, a line suggestion of two
\* columns of the table, the first a column of dates (not numeric), the second
\* numeric and holding values, is rendered: a visual is made from it with a
\* chart code that sorts by the x column and calls lineplot, and its chart
\* file is written.
C31_DateLineIsRendered ==
    SuggestionsAnswered =>
        \A i \in DOMAIN LastResponse.suggestions :
          LET instruction == LastResponse.suggestions[i]
          IN  ( /\ instruction.type = "line"
                /\ Len(instruction.columns) = 2
                /\ env.csv.dates
                /\ IsColumn(instruction.columns[1], FALSE)
                /\ IsColumn(instruction.columns[2], TRUE)
                /\ ~env.csv.numeric_nulls )
              => /\ VisualsOf(i) # {}
                 /\ \A k \in VisualsOf(i) :
                      NamesCall(Visuals[1][k].chart_code, "sns.lineplot", instruction.columns)
                 /\ ("local_app_data/charts/chart_" \o state["request_id"] \o "_" \o ToString(i)
                       \o ".png") \in files

\* a narrative without figure placeholders: finalization leaves its text as it is
Plain(narrative) == \A n \in 1..MaxFigures : Placeholder(n) \notin Range(narrative)
Separated(narrative) == ":-" \in Range(narrative)
LeftOf(narrative) == SubSeq(narrative, 1, FirstIndex(narrative, ":-") - 1)
RightOf(narrative) == SubSeq(narrative, FirstIndex(narrative, ":-") + 1, Len(narrative))

\* the subsection of narrative i is numbered 2.<i>, and a narrative with a
\* separator is printed as the trimmed text before its first separator, a
\* line break, and the trimmed text after it
SplitAtFirstSeparator ==
    Finalized =>
        \A i \in DOMAIN DraftNarratives :
          /\ Block(i)[1] = "\n### 2." \o ToString(i) \o ". "
          /\ (Plain(DraftNarratives[i]) /\ Separated(DraftNarratives[i]))
             => Block(i) = <<"\n### 2." \o ToString(i) \o ". ">>
                             \o strip(LeftOf(DraftNarratives[i]), Whitespace) \o <<"\n">>
                             \o strip(RightOf(DraftNarratives[i]), Whitespace) \o <<"\n">>

\* C32 (as claimed): in the finalized document the subsection of narrative i
\* is numbered 2.<i>; a narrative with a separator is printed as its trimmed
\* heading (the text before the first separator) and its trimmed body (the
\* text after it); a narrative without a separator is printed under the
\* heading "Finding" with an empty body.
C32_NarrativeSplit ==
    /\ SplitAtFirstSeparator
    /\ Finalized =>
         \A i \in DOMAIN DraftNarratives :
           (Plain(DraftNarratives[i]) /\ ~Separated(DraftNarratives[i]))
           => Block(i) = <<"\n### 2." \o ToString(i) \o ". ", "Finding", "\n", "\n">>

MarkdownWriteFailed ==
    /\ LastNode = "report_finalization"
    /\ Get(state, "error_message", None) = Some("Error saving final Markdown report")

\* C33: when the Markdown file of the report cannot be written, finalization
\* ends with status "error", its message is that of the failed write alone (no
\* PDF was attempted) and final_report is unset; and at the end of every run
\* final_report is set exactly when status is "report_finalized".
C33_ReportIffFinalized ==
    /\ MarkdownWriteFailed
       => /\ state["status"] = "error"
          /\ Get(state, "final_report", None) = None
          /\ pc = END
    /\ pc = END
       => (Get(state, "final_report", None) # None <=> Get(state, "status", "") = "report_finalized")
C33_Witness == pc = END /\ MarkdownWriteFailed /\ Get(state, "final_report", None) = None

\* C35: sanitizing a sanitized file name gives the same name:
\* sanitize_filename(sanitize_filename(f)) = sanitize_filename(f).
C35_SanitizeIdempotent ==
    Has(state, "sanitized_filename")
    => sanitize_filename(state["sanitized_filename"]) = state["sanitized_filename"]
C35_Witness ==
    /\ Has(state, "sanitized_filename")
    /\ state["uploaded_file_name"] = <<".", ".", "/", "a">>
    /\ state["sanitized_filename"] = <<"_", "a">>

\* lines 351-358: the values handed to the progress bar in a front-end run, one
\* for each update streamed so far; every node that returns streams one update
progress_values ==
    IF ~env.front_end THEN << >>
    ELSE [k \in 1..(IF pc = "exception" THEN Len(trace) - 1 ELSE Len(trace)) |->
            progress_value(k - 1)]

StagePosition(node) == CHOOSE k \in DOMAIN steps : steps[k] = node

\* C34 (as claimed): for every update streamed from the workflow the progress
\* value is the 1-based position of the update's node in the six-stage order
\* divided by six, and so lies within [0, 1], also in runs that stream
\* report_drafting and safety_check more than once.
C34_ProgressIsStagePosition ==
    \A k \in DOMAIN progress_values :
      /\ progress_values[k].denominator = 6
      /\ progress_values[k].numerator = StagePosition(trace[k])
      /\ 0 <= progress_values[k].numerator
      /\ progress_values[k].numerator <= progress_values[k].denominator

\* C39 (as claimed): when a run of the front end has ended, the front end shows the success
\* message only if the final status is "report_finalized"; a run that ended
\* after profiling because the data is thin (status "data_profiled", no final
\* report) gets no success message.
C39_SuccessOnlyWhenFinalized ==
    (env.front_end /\ pc = END /\ final_state # None)
    => /\ final_status_message(final_state[1]) = SuccessMessage
          => Get(final_state[1], "status", "") = "report_finalized"
       /\ (Get(final_state[1], "status", "") = "data_profiled"
           /\ Get(final_state[1], "final_report", None) = None)
          => final_status_message(final_state[1]) # SuccessMessage

ThinData ==
    /\ Profile # None
    /\ Profile[1].num_rows < MinRows \/ Profile[1].num_columns < MinColumns

\* C36: when the workflow has reached its end, status is "report_finalized",
\* "error", "invalid_instructions" or "data_profiled", the last only when the
\* run ended after profiling on thin data; it is never "initial",
\* "visuals_generated", "insights_generated", "report_drafted", "retrying" or
\* "safety_checked".
C36_EndStatuses ==
    pc = END
    => /\ Has(state, "status")
       /\ state["status"] \in {"report_finalized", "error", "invalid_instructions", "data_profiled"}
       /\ state["status"] \notin {"initial", "visuals_generated", "insights_generated",
                                  "report_drafted", "retrying", "safety_checked"}
       /\ state["status"] = "data_profiled" => (trace = <<"data_analysis">> /\ ThinData)
C36_Witness ==
    /\ pc = END
    /\ Has(state, "status")
    /\ state["status"] = "data_profiled"
    /\ ThinData
    /\ Profile[1].num_rows = MinRows - 1

\* visualization or insight_generation has ended with status "error"
FailedEarly ==
    \/ Get(first_status, "visualization", "") = "error"
    \/ Get(first_status, "insight_generation", "") = "error"

\* C37 (as claimed): once visualization or insight_generation has ended with
\* status "error", no later stage issues an LLM call, the failed stage's
\* error_message is not overwritten, status stays "error", no final report is
\* made, and the run ends rather than being given up by the graph.
C37_FirstFailureIsFinal ==
    [][FailedEarly
       => /\ llm_log' = << >>
          /\ Get(state', "error_message", None) = Get(state, "error_message", None)
          /\ Get(state', "status", "") = "error"
          /\ Get(state', "final_report", None) = None
          /\ pc' \in Nodes \cup {END}]_vars

\* insight_generation has just run on a state that visualization left with
\* status "visuals_generated" and an empty list of visuals
InsightsAfterNoVisuals ==
    /\ trace = <<"data_analysis", "visualization", "insight_generation">>
    /\ first_status["visualization"] = "visuals_generated"
    /\ Profile # None
    /\ Visuals = Some(<< >>)

\* C38 (as claimed): when visualization succeeded with an empty list of
\* visuals, insight_generation does not abort for missing prerequisites: it
\* issues its LLM call, and its error_message is not the missing-prerequisites
\* message.
C38_EmptyVisualsNotAborted ==
    InsightsAfterNoVisuals
    => /\ llm_log # << >>
       /\ Get(state, "error_message", None)
            # Some("Cannot generate insights: Missing data profile or generated visuals.")

====
